---- MODULE Spec2Model ----
(***************************************************************************)
(* TRIBE API examples: one invocation of an example function               *)
(* (getInsights, trackEvent, searchKnowledgeBase, trackBatchEvents,        *)
(* ingestEvents, generateInsight), from the call to the settlement of its  *)
(* promise and, when the file is run as a script, to the process exit.     *)
(*                                                                         *)
(* The environment supplies the outcome of fetch (a rejection or a         *)
(* response), and of response.json() (a value or a SyntaxError).  A        *)
(* received response is complete: response.text() always resolves.         *)
(***************************************************************************)
EXTENDS Integers, Sequences, FiniteSets, TLC

(***************************************************************************)
(* Bounds of the model.                                                    *)
(***************************************************************************)
\* longest `insights` / `articles` array of a response fixture
MaxItems == 2
\* longest `event_scores` array of a response fixture
MaxScores == 6
\* largest number of events handed to ingestEvents
MaxEvents == 3
MaxArgs == 2

(***************************************************************************)
(* JavaScript values.  A scalar is [t, n, s]: its type, its numeric value  *)
(* (numbers, and 0/1 for booleans) and its text (strings).                 *)
(***************************************************************************)
Undefined == [t |-> "undefined", n |-> 0, s |-> ""]
Null      == [t |-> "null", n |-> 0, s |-> ""]
Num(k)    == [t |-> "number", n |-> k, s |-> ""]
Str(x)    == [t |-> "string", n |-> 0, s |-> x]
Bool(b)   == [t |-> "boolean", n |-> IF b THEN 1 ELSE 0, s |-> ""]

\* ToBoolean, as applied by `!x`, `x || y`, `x ? a : b`
Truthy(v) ==
    CASE v.t = "number"  -> v.n # 0
      [] v.t = "string"  -> v.s # ""
      [] v.t = "boolean" -> v.n = 1
      [] OTHER           -> FALSE

\* a property read `x.f` throws a TypeError exactly when x is null or undefined
Nullish(t) == t \in {"null", "undefined"}

Digit(d) ==
    CASE d = 0 -> "0" [] d = 1 -> "1" [] d = 2 -> "2" [] d = 3 -> "3"
      [] d = 4 -> "4" [] d = 5 -> "5" [] d = 6 -> "6" [] d = 7 -> "7"
      [] d = 8 -> "8" [] d = 9 -> "9"

\* decimal rendering of a non-negative integer inside a template literal
RECURSIVE NumberToString(_)
NumberToString(k) ==
    IF k < 10 THEN <<Digit(k)>>
    ELSE NumberToString(k \div 10) \o <<Digit(k % 10)>>

\* `${v}` for a scalar v
Render(v) ==
    CASE v.t = "number"  -> NumberToString(v.n)
      [] v.t = "string"  -> <<v.s>>
      [] v.t = "boolean" -> <<IF v.n = 1 THEN "true" ELSE "false">>
      [] v.t = "null"    -> <<"null">>
      [] OTHER           -> <<"undefined">>

\* `${new Date(v).toLocaleDateString()}`: never throws
LocaleDate(v) == <<"toLocaleDateString(">> \o Render(v) \o <<")">>

(***************************************************************************)
(* Configuration, read from the environment when the module is loaded.     *)
(***************************************************************************)
Unset == "<unset>"

Examples ==
    {"getInsights", "trackEvent", "searchKnowledgeBase",
     "trackBatchEvents", "ingestEvents", "generateInsight"}

EnvKeys  == {Unset, "", "sk_live_abc"}
EnvBases == {Unset, "", "http://fixture.test"}

\* `process.env.X || fallback`
OrDefault(v, fallback) == IF v = Unset \/ v = "" THEN fallback ELSE v

API_KEY(env) == OrDefault(env, "your_api_key_here")

\* variant: every file falls back to the production origin
DefaultBaseProduction(ex) == "https://tribecode.ai/api"

DefaultBase(ex) ==
    IF ex \in {"ingestEvents", "generateInsight"}
    THEN "http://localhost:8080"
    ELSE "https://tribecode.ai/api"

API_BASE(ex, env) == OrDefault(env, DefaultBase(ex))

(***************************************************************************)
(* Requests.  A request is [method, base, path, query, headers, body]; the *)
(* query is the list of appended search parameters, the body the list of   *)
(* the top-level members handed to JSON.stringify.                         *)
(***************************************************************************)
\* variant: the Authorization header is left out
HeadersWithoutAuthorization(key) ==
    [Authorization |-> <<>>, ContentType |-> "application/json"]

Headers(key) ==
    [Authorization |-> <<"Bearer ", key>>, ContentType |-> "application/json"]

NoBody == <<>>

Member(k, v) == [k |-> k, v |-> v]

getInsightsRequest(key, base) ==
    [method |-> "GET", base |-> base, path |-> "/analytics/insights",
     query |-> <<>>, headers |-> Headers(key), body |-> NoBody]

trackEventRequest(key, base) ==
    [method |-> "POST", base |-> base, path |-> "/analytics/events",
     query |-> <<>>, headers |-> Headers(key),
     body |-> <<Member("event_name", <<"api_example_event">>),
                Member("event_data", <<"action", "timestamp">>),
                Member("metadata", <<"source", "version">>)>>]

\* variant: the `limit` parameter is not appended
searchKnowledgeBaseRequestWithoutLimit(key, base, query) ==
    [method |-> "GET", base |-> base, path |-> "/knowledge-base/articles",
     query |-> <<Member("search", <<query>>)>>,
     headers |-> Headers(key), body |-> NoBody]

searchKnowledgeBaseRequest(key, base, query) ==
    [method |-> "GET", base |-> base, path |-> "/knowledge-base/articles",
     query |-> <<Member("search", <<query>>), Member("limit", <<"5">>)>>,
     headers |-> Headers(key), body |-> NoBody]

BatchEvents == <<"page_view", "button_click", "api_call">>

trackBatchEventsRequest(key, base) ==
    [method |-> "POST", base |-> base, path |-> "/analytics/events/batch",
     query |-> <<>>, headers |-> Headers(key),
     body |-> <<Member("events", BatchEvents)>>]

ingestEventsRequest(key, base, events) ==
    [method |-> "POST", base |-> base, path |-> "/api/telemetry/ingest",
     query |-> <<>>, headers |-> Headers(key),
     body |-> <<Member("events", events)>>]

\* destructuring defaults of generateInsight(options = {})
OptionOr(v, fallback) == IF v = Unset THEN fallback ELSE v

generateInsightRequest(key, base, options) ==
    [method |-> "POST", base |-> base, path |-> "/api/insights/generate",
     query |-> <<>>, headers |-> Headers(key),
     body |-> <<Member("insight_type",
                       <<OptionOr(options.insightType, "usage_analysis")>>),
                Member("time_period", <<OptionOr(options.timePeriod, "7d")>>),
                Member("metadata",
                       <<OptionOr(options.focusArea, "productivity")>>)>>]

\* the arguments of one invocation: [query, events, options]
RequestOf(ex, key, base, arg) ==
    CASE ex = "getInsights"         -> getInsightsRequest(key, base)
      [] ex = "trackEvent"          -> trackEventRequest(key, base)
      [] ex = "searchKnowledgeBase" ->
             searchKnowledgeBaseRequest(key, base, arg.query)
      [] ex = "trackBatchEvents"    -> trackBatchEventsRequest(key, base)
      [] ex = "ingestEvents"        -> ingestEventsRequest(key, base, arg.events)
      [] ex = "generateInsight"     ->
             generateInsightRequest(key, base, arg.options)

(***************************************************************************)
(* Response bodies.  A parsed JSON document is `null` or an object; of an  *)
(* object the model keeps the members the examples read, and `extra` for   *)
(* one they do not.  Arrays and nested objects are [t, items] / [t, ...]   *)
(* with t the JavaScript type of the member.                               *)
(***************************************************************************)
NoArray  == [t |-> "undefined", items |-> <<>>]
Array(s) == [t |-> "array", items |-> s]
\* a member that is present but is a plain object, not an array
NotArray == [t |-> "object", items |-> <<>>]

\* every sequence over S of length at most k
SeqsUpTo(S, k) == UNION {[1..m -> S] : m \in 0..k}

\* elements of `insights`
InsightItem ==
    [t |-> "object", title |-> Null, category |-> Str("productivity"),
     priority |-> Str("high"), description |-> Str("d"),
     created_at |-> Str("2025-10-04")]
NullInsightItem ==
    [t |-> "null", title |-> Undefined, category |-> Undefined,
     priority |-> Undefined, description |-> Undefined,
     created_at |-> Undefined]
InsightItems == {InsightItem, NullInsightItem}

\* elements of `articles`
Article(tags) ==
    [t |-> "object", title |-> Str("Never Commit Secrets"),
     topic |-> Str("security"), tags |-> tags,
     updated_at |-> Str("2025-09-30")]
NullArticle ==
    [t |-> "null", title |-> Undefined, topic |-> Undefined,
     tags |-> NoArray, updated_at |-> Undefined]
ArticleItems ==
    {Article(Array(<<"security", "secrets">>)), Article(Array(<<>>)),
     Article(NoArray), Article(NotArray), NullArticle}

\* elements of `insight.event_scores`
ScoreItem(i) == [event_id |-> Num(i), relevance |-> Num(i % 11)]
Scores(m) == Array([i \in 1..m |-> ScoreItem(i)])

\* the member `insight` of a generate response
NoInsight ==
    [t |-> "undefined", title |-> Undefined, provider |-> Undefined,
     description |-> Undefined, value |-> Undefined,
     recommendation |-> Undefined, event_scores |-> NoArray]
Insight(scores) ==
    [t |-> "object", title |-> Str("Usage"), provider |-> Str("kimi"),
     description |-> Str("d"), value |-> Str("v"),
     recommendation |-> Str("r"), event_scores |-> scores]

EmptyObject ==
    [top |-> "object", success |-> Undefined, event_id |-> Undefined,
     processed |-> Undefined, failed |-> Undefined,
     events_processed |-> Undefined, user_id |-> Undefined,
     total |-> Undefined, unreadCount |-> Undefined,
     insights |-> NoArray, articles |-> NoArray, insight |-> NoInsight,
     extra |-> Undefined]

\* the JSON document `null`
NullDocument == [EmptyObject EXCEPT !.top = "null"]

SuccessFlags == {Undefined, Bool(TRUE), Bool(FALSE)}

InsightsDocuments ==
    {[EmptyObject EXCEPT !.insights = a, !.unreadCount = Num(16)] :
        a \in {NotArray} \cup {Array(s) : s \in SeqsUpTo(InsightItems, MaxItems)}}

EventDocuments ==
    {[EmptyObject EXCEPT !.success = f, !.event_id = e] :
        f \in SuccessFlags, e \in {Undefined, Str("evt_1")}}

KnowledgeBaseDocuments ==
    {[EmptyObject EXCEPT !.articles = a, !.total = Num(13)] :
        a \in {Array(s) : s \in SeqsUpTo(ArticleItems, MaxItems)}}

BatchDocuments ==
    {[EmptyObject EXCEPT !.success = f, !.processed = Num(n),
                         !.failed = Num(3 - n)] :
        f \in SuccessFlags, n \in {0, 3}}

IngestDocuments ==
    {[EmptyObject EXCEPT !.success = f, !.events_processed = n,
                         !.user_id = Str("0b49700d")] :
        f \in SuccessFlags, n \in {Undefined, Num(0), Num(1)}}

GenerateDocuments ==
    {[EmptyObject EXCEPT !.success = f, !.insight = i] :
        f \in {Bool(TRUE), Bool(FALSE)},
        i \in {NoInsight, Insight(NoArray)}
              \cup {Insight(Scores(m)) : m \in 0..MaxScores}}

ErrorDocument == [EmptyObject EXCEPT !.extra = Str("Authentication required")]

Documents ==
    {NullDocument, ErrorDocument} \cup InsightsDocuments \cup EventDocuments
        \cup KnowledgeBaseDocuments \cup BatchDocuments \cup IngestDocuments
        \cup GenerateDocuments

\* a body is its text and what JSON.parse makes of that text
JsonBody(text, doc) == [text |-> text, valid |-> TRUE, data |-> doc]
TextBody(text)      == [text |-> text, valid |-> FALSE, data |-> NullDocument]

Bodies ==
    {TextBody(""), TextBody("<html>Bad Gateway</html>"),
     JsonBody("{\"error\":\"Authentication required\"}", ErrorDocument)}
        \cup {JsonBody("<json document>", d) : d \in Documents \ {ErrorDocument}}

Statuses == {200, 201, 299, 300, 401, 500}

ReasonPhrase(status) ==
    CASE status \in {200, 299} -> "OK"
      [] status = 201 -> "Created"
      [] status = 300 -> "Multiple Choices"
      [] status = 401 -> "Unauthorized"
      [] status = 500 -> "Internal Server Error"

Responses ==
    {[status |-> st, statusText |-> ReasonPhrase(st), body |-> b] :
        st \in Statuses, b \in Bodies}

NoResponse == [status |-> 0, statusText |-> "", body |-> TextBody("")]

\* variant: redirects count as success
OkBelow400(response) == response.status >= 200 /\ response.status < 400

\* Response.ok
Ok(response) == response.status >= 200 /\ response.status <= 299

(***************************************************************************)
(* Errors: [name, message, cause].  The message is the list of the pieces  *)
(* the template literal concatenates.                                      *)
(***************************************************************************)
NoCause == "<none>"
NoError == [name |-> "", message |-> <<>>, cause |-> NoCause]

Error(message) == [name |-> "Error", message |-> message, cause |-> NoCause]

\* what fetch rejects with when no response arrives
FetchCauses == {"ENOTFOUND", "ECONNREFUSED", "ETIMEDOUT"}
FetchFailed(cause) ==
    [name |-> "TypeError", message |-> <<"fetch failed">>, cause |-> cause]

\* what response.json() rejects with
JsonSyntaxError ==
    [name |-> "SyntaxError", message |-> <<"Unexpected token in JSON">>,
     cause |-> NoCause]

\* a property read of null / undefined, or a call of a missing method
TypeError(what) ==
    [name |-> "TypeError", message |-> <<"Cannot read properties: ", what>>,
     cause |-> NoCause]

\* variant: the message of a non-2xx failure leaves the status code out
StatusTextErrorWithoutStatus(response) ==
    Error(<<"API error: ", response.statusText>>)

\* `API error: ${response.status} ${response.statusText}`
StatusTextError(response) ==
    Error(<<"API error: ">> \o NumberToString(response.status)
              \o <<" ", response.statusText>>)

\* `API error: ${response.status} - ${error}`, error = await response.text()
BodyTextError(response, text) ==
    Error(<<"API error: ">> \o NumberToString(response.status)
              \o <<" - ", text>>)

\* variant: no example reads the body of a non-2xx response
ReadsErrorBodyNever(ex) == FALSE

\* the examples that read the body of a non-2xx response
ReadsErrorBody(ex) == ex \in {"ingestEvents", "generateInsight"}

(***************************************************************************)
(* What an example does with the parsed document: the lines it prints, in  *)
(* order, and the error that ends it (NoError when it reaches `return`).   *)
(***************************************************************************)
Printed(lines)        == [lines |-> lines, error |-> NoError]
Thrown(lines, error)  == [lines |-> lines, error |-> error]

RECURSIVE Flatten(_)
Flatten(ss) == IF ss = <<>> THEN <<>> ELSE Head(ss) \o Flatten(Tail(ss))

\* arr.forEach(block): the blocks run in index order until one throws
ForEach(blocks) ==
    LET n     == Len(blocks)
        bad   == {i \in 1..n : blocks[i].error # NoError}
        stop  == IF bad = {} THEN n
                 ELSE CHOOSE i \in bad : \A j \in bad : i <= j
    IN  [lines |-> Flatten([i \in 1..stop |-> blocks[i].lines]),
         error |-> IF bad = {} THEN NoError ELSE blocks[stop].error]

\* statements in sequence: the second runs only if the first did not throw
Then(first, second) ==
    IF first.error # NoError THEN first
    ELSE [lines |-> first.lines \o second.lines, error |-> second.error]

\* `${a.length}` of a member a that is neither null nor undefined
LengthOf(a) ==
    IF a.t = "array" THEN NumberToString(Len(a.items)) ELSE <<"undefined">>

\* ---- insights.js ------------------------------------------------------
InsightBlock(index, insight) ==
    IF insight.t = "null" THEN Thrown(<<>>, TypeError("title"))
    ELSE Printed(<<
        NumberToString(index) \o <<". ">> \o Render(insight.title),
        <<"   Category: ">> \o Render(insight.category)
            \o <<" | Priority: ">> \o Render(insight.priority),
        <<"   ">> \o Render(insight.description),
        <<"   Created: ">> \o LocaleDate(insight.created_at) >>)

getInsightsSummary(data) ==
    LET header == Printed(<< <<"TRIBE Analytics Insights">> >>)
        counts ==
            IF data.top = "null" \/ Nullish(data.insights.t)
            THEN Thrown(<<>>, TypeError("length"))
            ELSE Printed(<< <<"Total insights: ">> \o LengthOf(data.insights),
                            <<"Unread: ">> \o Render(data.unreadCount) >>)
        each ==
            IF data.insights.t # "array"
            THEN Thrown(<<>>, TypeError("forEach"))
            ELSE ForEach([i \in 1..Len(data.insights.items) |->
                            InsightBlock(i, data.insights.items[i])])
    IN  Then(header, Then(counts, each))

\* ---- events.js --------------------------------------------------------
\* variant: trackEvent rejects a response whose `success` is falsy
trackEventSummaryChecksSuccess(data) ==
    IF data.top = "null" THEN Thrown(<<>>, TypeError("success"))
    ELSE IF ~Truthy(data.success)
    THEN Thrown(<<>>, Error(<<"Event tracking failed">>))
    ELSE Printed(<< <<"Event Tracked Successfully">>,
                    <<"Event ID: ">> \o Render(data.event_id),
                    <<"Status: ", "Success">> >>)

trackEventSummary(data) ==
    LET header == Printed(<< <<"Event Tracked Successfully">> >>)
        fields ==
            IF data.top = "null" THEN Thrown(<<>>, TypeError("event_id"))
            ELSE Printed(<< <<"Event ID: ">> \o Render(data.event_id),
                            <<"Status: ",
                              IF Truthy(data.success) THEN "Success"
                                                      ELSE "Failed">> >>)
    IN  Then(header, fields)

\* ---- knowledge-base.js ------------------------------------------------
\* `article.tags?.join(', ') || 'none'`
RECURSIVE Join(_)
Join(items) ==
    IF Len(items) <= 1 THEN items
    ELSE <<Head(items), ", ">> \o Join(Tail(items))

TagsText(tags) ==
    IF Nullish(tags.t) \/ tags.items = <<>> \/ tags.items = <<"">>
    THEN <<"none">>
    ELSE Join(tags.items)

\* variant: `article.tags.join(', ')` without the optional chaining
ArticleBlockRequiresTags(index, article) ==
    IF article.t = "null" THEN Thrown(<<>>, TypeError("title"))
    ELSE LET head == Printed(<<
                 NumberToString(index) \o <<". ">> \o Render(article.title),
                 <<"   Topic: ">> \o Render(article.topic) >>)
             rest ==
                 IF article.tags.t # "array"
                 THEN Thrown(<<>>, TypeError("join"))
                 ELSE Printed(<<
                     <<"   Tags: ">> \o TagsText(article.tags),
                     <<"   Updated: ">> \o LocaleDate(article.updated_at) >>)
         IN  Then(head, rest)

ArticleBlock(index, article) ==
    IF article.t = "null" THEN Thrown(<<>>, TypeError("title"))
    ELSE LET head == Printed(<<
                 NumberToString(index) \o <<". ">> \o Render(article.title),
                 <<"   Topic: ">> \o Render(article.topic) >>)
             rest ==
                 IF ~Nullish(article.tags.t) /\ article.tags.t # "array"
                 THEN Thrown(<<>>, TypeError("join"))
                 ELSE Printed(<<
                     <<"   Tags: ">> \o TagsText(article.tags),
                     <<"   Updated: ">> \o LocaleDate(article.updated_at) >>)
         IN  Then(head, rest)

searchKnowledgeBaseSummary(data, query) ==
    LET header ==
            Printed(<< <<"Knowledge Base Search Results for: ", query>> >>)
        total ==
            IF data.top = "null" THEN Thrown(<<>>, TypeError("total"))
            ELSE Printed(<< <<"Total results: ">> \o Render(data.total) >>)
        showing ==
            IF Nullish(data.articles.t) THEN Thrown(<<>>, TypeError("length"))
            ELSE Printed(<< <<"Showing: ">> \o LengthOf(data.articles)
                                \o <<" articles">> >>)
        each ==
            IF data.articles.t # "array"
            THEN Thrown(<<>>, TypeError("forEach"))
            ELSE ForEach([i \in 1..Len(data.articles.items) |->
                            ArticleBlock(i, data.articles.items[i])])
    IN  Then(header, Then(total, Then(showing, each)))

\* ---- batch-events.js --------------------------------------------------
\* variant: the closing line is chosen from `failed`, not from `success`
trackBatchEventsSummaryByFailed(data) ==
    LET header ==
            Printed(<< <<"Batch Events Tracked">>,
                       <<"Total events sent: ">>
                           \o NumberToString(Len(BatchEvents)) >>)
        fields ==
            IF data.top = "null" THEN Thrown(<<>>, TypeError("processed"))
            ELSE Printed(<<
                <<"Successfully processed: ">> \o Render(data.processed),
                <<"Failed: ">> \o Render(data.failed),
                IF data.failed = Num(0)
                THEN <<"All events tracked successfully">>
                ELSE <<"Some events failed to track">> >>)
    IN  Then(header, fields)

trackBatchEventsSummary(data) ==
    LET header ==
            Printed(<< <<"Batch Events Tracked">>,
                       <<"Total events sent: ">>
                           \o NumberToString(Len(BatchEvents)) >>)
        fields ==
            IF data.top = "null" THEN Thrown(<<>>, TypeError("processed"))
            ELSE Printed(<<
                <<"Successfully processed: ">> \o Render(data.processed),
                <<"Failed: ">> \o Render(data.failed),
                IF Truthy(data.success)
                THEN <<"All events tracked successfully">>
                ELSE <<"Some events failed to track">> >>)
    IN  Then(header, fields)

\* ---- ingest-events.js -------------------------------------------------
\* `if (!data.success) throw new Error(failure)`
SuccessCheck(data, failure) ==
    IF data.top = "null" THEN Thrown(<<>>, TypeError("success"))
    ELSE IF ~Truthy(data.success) THEN Thrown(<<>>, Error(<<failure>>))
    ELSE Printed(<<>>)

ingestEventsSummary(data, events) ==
    LET lines ==
            Printed(<<
                <<"Events ingested successfully">>,
                <<"Events processed: ">> \o
                    (IF Truthy(data.events_processed)
                     THEN Render(data.events_processed)
                     ELSE NumberToString(Len(events))),
                <<"User ID: ">> \o Render(data.user_id) >>)
    IN  Then(SuccessCheck(data, "Event ingestion failed"), lines)

\* ---- generate-insight.js ----------------------------------------------
\* event_scores.slice(0, ScoresShown)
ScoresShown == 5

Min(a, b) == IF a <= b THEN a ELSE b

ScoreLines(scores) ==
    IF scores.t # "array" \/ Len(scores.items) = 0 THEN <<>>
    ELSE << <<"Event Scores (">> \o NumberToString(Len(scores.items))
                \o <<" events):">> >>
         \o [i \in 1..Min(ScoresShown, Len(scores.items)) |->
                <<"   Event ">> \o Render(scores.items[i].event_id)
                    \o <<": relevance ">> \o Render(scores.items[i].relevance)
                    \o <<"/10">>]
         \o (IF Len(scores.items) > ScoresShown
             THEN << <<"   ... and ">>
                        \o NumberToString(Len(scores.items) - ScoresShown)
                        \o <<" more">> >>
             ELSE <<>>)

generateInsightSummary(data) ==
    LET header == Printed(<< <<"AI-Powered Insight Generated">> >>)
        fields ==
            IF Nullish(data.insight.t) THEN Thrown(<<>>, TypeError("title"))
            ELSE Printed(<<
                    <<"Title: ">> \o Render(data.insight.title),
                    <<"Provider: ">> \o Render(data.insight.provider),
                    <<"Description: ">> \o Render(data.insight.description),
                    <<"Analysis:">>,
                    <<"   ">> \o Render(data.insight.value),
                    <<"Recommendation:">>,
                    <<"   ">> \o Render(data.insight.recommendation) >>
                 \o ScoreLines(data.insight.event_scores))
    IN  Then(SuccessCheck(data, "Insight generation failed"),
             Then(header, fields))

\* the statements between `await response.json()` and `return data`
SummaryOf(ex, data, arg) ==
    CASE ex = "getInsights"         -> getInsightsSummary(data)
      [] ex = "trackEvent"          -> trackEventSummary(data)
      [] ex = "searchKnowledgeBase" ->
             searchKnowledgeBaseSummary(data, arg.query)
      [] ex = "trackBatchEvents"    -> trackBatchEventsSummary(data)
      [] ex = "ingestEvents"        -> ingestEventsSummary(data, arg.events)
      [] ex = "generateInsight"     -> generateInsightSummary(data)

\* first argument of console.error in the catch block
CatchPrefix(ex) ==
    CASE ex = "getInsights"         -> "Error fetching insights:"
      [] ex = "trackEvent"          -> "Error tracking event:"
      [] ex = "searchKnowledgeBase" -> "Error searching knowledge base:"
      [] ex = "trackBatchEvents"    -> "Error tracking batch events:"
      [] ex = "ingestEvents"        -> "Error ingesting events:"
      [] ex = "generateInsight"     -> "Error generating insight:"

(***************************************************************************)
(* State: one invocation of one example.                                   *)
(***************************************************************************)
VARIABLES
    example,     \* the function invoked
    envKey,      \* process.env.TRIBE_API_KEY
    envBase,     \* process.env.TRIBE_API_BASE
    runDirect,   \* require.main === module: the file is run as a script
    arg,         \* [query, events, options] of the invocation
    pc,          \* "loaded", "fetching", "readingText", "parsingJson",
                 \* "settled", "exited"
    requests,    \* the fetch calls made so far, in order
    response,    \* the response fetch resolved with, or NoResponse
    textCalls,   \* number of response.text() calls
    jsonCalls,   \* number of response.json() calls
    stdout,      \* lines written by console.log
    stderr,      \* lines written by console.error
    thrown,      \* the error raised inside the try block, or NoError
    result,      \* the promise returned by the example function
    exitCode     \* the process exit code, or NotExited

\* the state of the test runner (test-api.js, runTests)
VARIABLES
    runnerPc,      \* "absent", "loaded", "running", "exited"
    runnerEnv,     \* [key, base]: process.env of the runner's process
    calls,         \* per test: "notStarted", "inFlight", "settled"
    sent,          \* the fetch calls made by the runner's process, in order
    results,       \* the object `results`: [passed, failed, tests]
    runnerStdout,  \* lines written to stdout by the runner and the examples
    runnerStderr,  \* lines written to stderr by the runner and the examples
    runnerExit     \* the exit code of the runner's process, or NotExited

\* the state of the shell test suites (test-*.sh) and of the home directory
VARIABLES
    suiteOf,       \* per process: the suite script it runs, or "none"
    suitePc,       \* per process: its position in main and in the EXIT trap
    suiteExit,     \* per process: the exit status, or NotExited
    home,          \* the directory $HOME/.tribe
    homeBefore,    \* $HOME/.tribe as it was before any suite started
    backupDir,     \* per process: the directory $HOME/.tribe-backup-$$
    testDir        \* per process: whether $HOME/.tribe-test-$$ exists

\* the state of the master test runner (run-all-tests.sh)
VARIABLES
    invocation,    \* [argv, testQuick, scriptsPresent, bashBefore44]
    runAllPc,      \* "absent", "main", "parsed", "checked", "loop", "suite",
                   \* "report", "exited"
    options,       \* VERBOSE, QUICK, FAIL_FAST, SELECTED_TESTS, TEST_QUICK
    unique_tests,  \* the suite scripts to run, in order
    cursor,        \* the position of the run loop in unique_tests
    total_tests,
    passed_tests,
    failed_tests,
    ran,           \* the suites started so far: [script, tests, code]
    report,        \* the counts handed to generate_test_report, or NoReport
    runAllExit     \* the exit status of run-all-tests.sh, or NotExited

\* the state of one suite script seen test by test (main, run_*_tests and
\* the mock OAuth server of test-oauth-flow.sh)
VARIABLES
    suiteScript,     \* the suite script under execution, or "none"
    tools,           \* what the machine offers: [cli, python3, jq]
    scriptPc,        \* "absent", "setup", "start_server", "tests", "exit",
                     \* "cleanup", "done"
    executed,        \* the test functions called so far, by position
    totalTests,      \* run_*_tests: `local total_tests`
    failedTests,     \* run_*_tests: `local failed_tests`
    MOCK_SERVER_PID, \* "" until the server process is started
    server,          \* the process of mock-oauth-server.py: "none",
                     \* "starting", "listening", "dead", "terminated"
    exchanges,       \* the requests the server answered: [request, response]
    scriptLog,       \* the lines of the suite's output the properties read
    scriptExit       \* the exit status of the script, or NotExited

\* the state of one call of validate_config_structure
VARIABLES
    config_file,     \* the file at "$1": [readable, content]
    validation       \* [pc, status]: "absent", "called" or "returned",
                     \* and the return status, or NotExited

exampleVars ==
    <<example, envKey, envBase, runDirect, arg, pc, requests, response,
      textCalls, jsonCalls, stdout, stderr, thrown, result, exitCode>>

runnerVars ==
    <<runnerPc, runnerEnv, calls, sent, results, runnerStdout, runnerStderr,
      runnerExit>>

suiteVars ==
    <<suiteOf, suitePc, suiteExit, home, homeBefore, backupDir, testDir>>

runAllVars ==
    <<invocation, runAllPc, options, unique_tests, cursor, total_tests,
      passed_tests, failed_tests, ran, report, runAllExit>>

\* the programs other than the example under invocation, other than the
\* test runner, other than the suites, other than the master test runner
scriptVars ==
    <<suiteScript, tools, scriptPc, executed, totalTests, failedTests,
      MOCK_SERVER_PID, server, exchanges, scriptLog, scriptExit>>

validateVars == <<config_file, validation>>

shellVars == <<scriptVars, validateVars>>

harnessVars  == <<runnerVars, suiteVars, runAllVars, shellVars>>
exceptRunner == <<exampleVars, suiteVars, runAllVars, shellVars>>
exceptSuites == <<exampleVars, runnerVars, runAllVars, shellVars>>
exceptRunAll == <<exampleVars, runnerVars, suiteVars, shellVars>>
exceptScript == <<exampleVars, runnerVars, suiteVars, runAllVars, validateVars>>
exceptValidate == <<exampleVars, runnerVars, suiteVars, runAllVars, scriptVars>>

vars == <<exampleVars, harnessVars>>

NotExited == -1

Pending        == [state |-> "pending", value |-> NullDocument, error |-> NoError]
Fulfilled(v)   == [state |-> "fulfilled", value |-> v, error |-> NoError]
Rejected(e)    == [state |-> "rejected", value |-> NullDocument, error |-> e]

\* the events of ingestBatchEvents, and its prefixes / extensions
EventTypeAt(i) ==
    CASE i % 3 = 1 -> "user" [] i % 3 = 2 -> "assistant" [] OTHER -> "summary"
EventsOfLength(m) == [i \in 1..m |-> EventTypeAt(i)]

DefaultOptions ==
    [insightType |-> Unset, timePeriod |-> Unset, focusArea |-> Unset]
DefaultArg ==
    [query |-> "oauth", events |-> EventsOfLength(3), options |-> DefaultOptions]

\* the invocation made by the `require.main === module` block of each file
MainArgs(ex) ==
    CASE ex = "searchKnowledgeBase" ->
             {[DefaultArg EXCEPT !.query = q] : q \in {"oauth", "api"}}
      [] ex = "generateInsight" ->
             {[DefaultArg EXCEPT !.options =
                 [insightType |-> "usage_analysis", timePeriod |-> "7d",
                  focusArea |-> "code_quality"]]}
      [] OTHER -> {DefaultArg}

\* the invocations a requiring module can make
LibraryArgs(ex) ==
    CASE ex = "searchKnowledgeBase" ->
             {[DefaultArg EXCEPT !.query = q] : q \in {"oauth", "api"}}
      [] ex = "ingestEvents" ->
             {[DefaultArg EXCEPT !.events = EventsOfLength(m)] :
                 m \in 0..MaxEvents}
      [] ex = "generateInsight" ->
             {[DefaultArg EXCEPT !.options.focusArea = f] :
                 f \in {Unset, "code_quality"}}
      [] OTHER -> {DefaultArg}

\* the four tests of runTests, in the order of their `await test(...)`
TestNames ==
    <<"Get Insights", "Track Event", "Search Knowledge Base",
      "Track Batch Events">>
TestExamples ==
    <<"getInsights", "trackEvent", "searchKnowledgeBase", "trackBatchEvents">>
Tests == 1..Len(TestExamples)

NoResults == [passed |-> 0, failed |-> 0, tests |-> <<>>]

\* the test runner is not part of the run
RunnerAbsent ==
    /\ runnerPc = "absent"
    /\ runnerEnv = [key |-> Unset, base |-> Unset]
    /\ calls = [i \in Tests |-> "notStarted"]
    /\ sent = <<>>
    /\ results = NoResults
    /\ runnerStdout = <<>>
    /\ runnerStderr = <<>>
    /\ runnerExit = NotExited

\* the suite processes, by PID
SuiteProcs == {1, 2}

\* a directory is the list of what was put into it, outermost first; the
\* empty list is a path at which nothing exists
Absent == <<>>

\* no suite is started and $HOME/.tribe is left alone
SuitesAbsent ==
    /\ suiteOf = [p \in SuiteProcs |-> "none"]
    /\ suitePc = [p \in SuiteProcs |-> "absent"]
    /\ suiteExit = [p \in SuiteProcs |-> NotExited]
    /\ home = Absent
    /\ homeBefore = Absent
    /\ backupDir = [p \in SuiteProcs |-> Absent]
    /\ testDir = [p \in SuiteProcs |-> FALSE]

NoOptions ==
    [VERBOSE |-> FALSE, QUICK |-> FALSE, FAIL_FAST |-> FALSE,
     SELECTED_TESTS |-> <<>>, TEST_QUICK |-> Unset, exit |-> NotExited]

NoReport == [total |-> -1, passed |-> -1, failed |-> -1]

\* run-all-tests.sh is not started
RunAllAbsent ==
    /\ invocation = [argv |-> <<>>, testQuick |-> Unset,
                     scriptsPresent |-> TRUE, bashBefore44 |-> FALSE]
    /\ runAllPc = "absent"
    /\ options = NoOptions
    /\ unique_tests = <<>>
    /\ cursor = 0
    /\ total_tests = 0
    /\ passed_tests = 0
    /\ failed_tests = 0
    /\ ran = <<>>
    /\ report = NoReport
    /\ runAllExit = NotExited

\* no suite script is followed test by test, and no file is validated
ShellAbsent ==
    /\ suiteScript = "none"
    /\ tools = [cli |-> TRUE, python3 |-> TRUE, jq |-> TRUE]
    /\ scriptPc = "absent"
    /\ executed = <<>>
    /\ totalTests = 0
    /\ failedTests = 0
    /\ MOCK_SERVER_PID = ""
    /\ server = "none"
    /\ exchanges = <<>>
    /\ scriptLog = <<>>
    /\ scriptExit = NotExited
    /\ config_file = [readable |-> FALSE, content |-> <<>>]
    /\ validation = [pc |-> "absent", status |-> NotExited]

Init ==
    /\ ShellAbsent
    /\ RunnerAbsent
    /\ SuitesAbsent
    /\ RunAllAbsent
    /\ example \in Examples
    /\ envKey \in EnvKeys
    /\ envBase \in EnvBases
    /\ runDirect \in BOOLEAN
    /\ arg \in (IF runDirect THEN MainArgs(example) ELSE LibraryArgs(example))
    /\ pc = "loaded"
    /\ requests = <<>>
    /\ response = NoResponse
    /\ textCalls = 0
    /\ jsonCalls = 0
    /\ stdout = <<>>
    /\ stderr = <<>>
    /\ thrown = NoError
    /\ result = Pending
    /\ exitCode = NotExited

\* variant: the catch block throws a new error made from the message
CatchBlockWraps(ex, error, reqs) ==
    [stderr   |-> << <<CatchPrefix(ex)>> \o error.message >>,
     result   |-> Rejected(Error(error.message)),
     requests |-> reqs]

\* variant: the catch block logs and does not rethrow
CatchBlockSwallows(ex, error, reqs) ==
    [stderr   |-> << <<CatchPrefix(ex)>> \o error.message >>,
     result   |-> Fulfilled(NullDocument),
     requests |-> reqs]

\* variant: the catch block sends the request once more
CatchBlockRetries(ex, error, reqs) ==
    [stderr   |-> << <<CatchPrefix(ex)>> \o error.message >>,
     result   |-> Rejected(error),
     requests |-> reqs \o reqs]

\* `catch (error) { console.error(prefix, error.message); throw error; }`:
\* the line logged, the settlement of the promise, and the requests made
CatchBlock(ex, error, reqs) ==
    [stderr   |-> << <<CatchPrefix(ex)>> \o error.message >>,
     result   |-> Rejected(error),
     requests |-> reqs]

\* the try block throws `error`
Throw(error) ==
    LET c == CatchBlock(example, error, requests)
    IN  /\ thrown' = error
        /\ stderr' = stderr \o c.stderr
        /\ result' = c.result
        /\ requests' = c.requests
        /\ pc' = "settled"

\* the example function runs up to `await fetch(...)`
Call(ex) ==
    /\ pc = "loaded"
    /\ example = ex
    /\ requests' = Append(requests,
                     RequestOf(ex, API_KEY(envKey), API_BASE(ex, envBase), arg))
    /\ pc' = "fetching"
    /\ UNCHANGED <<harnessVars, example, envKey, envBase, runDirect, arg, response,
                   textCalls, jsonCalls, stdout, stderr, thrown, result,
                   exitCode>>

getInsights         == Call("getInsights")
trackEvent          == Call("trackEvent")
searchKnowledgeBase == Call("searchKnowledgeBase")
trackBatchEvents    == Call("trackBatchEvents")
ingestEvents        == Call("ingestEvents")
generateInsight     == Call("generateInsight")

\* fetch rejects: no response was received
FetchRejects ==
    /\ pc = "fetching"
    /\ \E cause \in FetchCauses : Throw(FetchFailed(cause))
    /\ UNCHANGED <<harnessVars, example, envKey, envBase, runDirect, arg, response,
                   textCalls, jsonCalls, stdout, exitCode>>

\* fetch resolves: `if (!response.ok)` and the next await
FetchResolves ==
    /\ pc = "fetching"
    /\ \E r \in Responses :
        /\ response' = r
        /\ IF Ok(r)
           THEN /\ jsonCalls' = jsonCalls + 1
                /\ pc' = "parsingJson"
                /\ UNCHANGED <<textCalls, stderr, thrown, result, requests>>
           ELSE IF ReadsErrorBody(example)
           THEN /\ textCalls' = textCalls + 1
                /\ pc' = "readingText"
                /\ UNCHANGED <<jsonCalls, stderr, thrown, result, requests>>
           ELSE /\ Throw(StatusTextError(r))
                /\ UNCHANGED <<textCalls, jsonCalls>>
    /\ UNCHANGED <<harnessVars, example, envKey, envBase, runDirect, arg, stdout, exitCode>>

\* response.text() resolves with the body of a non-2xx response
TextResolves ==
    /\ pc = "readingText"
    /\ Throw(BodyTextError(response, response.body.text))
    /\ UNCHANGED <<harnessVars, example, envKey, envBase, runDirect, arg, response,
                   textCalls, jsonCalls, stdout, exitCode>>

\* variant: a parse failure is swallowed and an empty value returned
JsonRejectsSwallowed ==
    /\ pc = "parsingJson"
    /\ ~response.body.valid
    /\ result' = Fulfilled(NullDocument)
    /\ pc' = "settled"
    /\ UNCHANGED <<harnessVars, example, envKey, envBase, runDirect, arg, response,
                   textCalls, jsonCalls, stdout, stderr, thrown, requests,
                   exitCode>>

\* response.json() rejects: the body of a 2xx response is not JSON
JsonRejects ==
    /\ pc = "parsingJson"
    /\ ~response.body.valid
    /\ Throw(JsonSyntaxError)
    /\ UNCHANGED <<harnessVars, example, envKey, envBase, runDirect, arg, response,
                   textCalls, jsonCalls, stdout, exitCode>>

\* response.json() resolves: the summary is printed and the data returned
JsonResolves ==
    /\ pc = "parsingJson"
    /\ response.body.valid
    /\ LET data == response.body.data
           out  == SummaryOf(example, data, arg)
       IN  /\ stdout' = stdout \o out.lines
           /\ IF out.error = NoError
              THEN /\ result' = Fulfilled(data)
                   /\ pc' = "settled"
                   /\ UNCHANGED <<stderr, thrown, requests>>
              ELSE Throw(out.error)
    /\ UNCHANGED <<harnessVars, example, envKey, envBase, runDirect, arg, response,
                   textCalls, jsonCalls, exitCode>>

\* `.then(() => console.log('Done'))`, after which the process ends
MainThen ==
    /\ pc = "settled"
    /\ runDirect
    /\ result.state = "fulfilled"
    /\ stdout' = Append(stdout, <<"Done">>)
    /\ exitCode' = 0
    /\ pc' = "exited"
    /\ UNCHANGED <<harnessVars, example, envKey, envBase, runDirect, arg, requests,
                   response, textCalls, jsonCalls, stderr, thrown, result>>

\* variant: the rejection is caught and the process ends normally
MainCatchExitsZero ==
    /\ pc = "settled"
    /\ runDirect
    /\ result.state = "rejected"
    /\ exitCode' = 0
    /\ pc' = "exited"
    /\ UNCHANGED <<harnessVars, example, envKey, envBase, runDirect, arg, requests,
                   response, textCalls, jsonCalls, stdout, stderr, thrown,
                   result>>

\* `.catch(err => process.exit(1))`
MainCatch ==
    /\ pc = "settled"
    /\ runDirect
    /\ result.state = "rejected"
    /\ exitCode' = 1
    /\ pc' = "exited"
    /\ UNCHANGED <<harnessVars, example, envKey, envBase, runDirect, arg, requests,
                   response, textCalls, jsonCalls, stdout, stderr, thrown,
                   result>>

Next ==
    \/ getInsights
    \/ trackEvent
    \/ searchKnowledgeBase
    \/ trackBatchEvents
    \/ ingestEvents
    \/ generateInsight
    \/ FetchRejects
    \/ FetchResolves
    \/ TextResolves
    \/ JsonRejects
    \/ JsonResolves
    \/ MainThen
    \/ MainCatch

Spec == Init /\ [][Next]_vars

TypeOK ==
    /\ example \in Examples
    /\ pc \in {"loaded", "fetching", "readingText", "parsingJson", "settled",
               "exited"}
    /\ exitCode \in {NotExited, 0, 1}
    /\ result.state \in {"pending", "fulfilled", "rejected"}

(***************************************************************************)
(* The test runner: runTests calls four of the examples one after the      *)
(* other against one server and counts the calls that pass.                *)
(***************************************************************************)
\* no example is invoked on its own
ExampleNotInvoked ==
    /\ example = "getInsights"
    /\ envKey = Unset
    /\ envBase = Unset
    /\ runDirect = FALSE
    /\ arg = DefaultArg
    /\ pc = "loaded"
    /\ requests = <<>>
    /\ response = NoResponse
    /\ textCalls = 0
    /\ jsonCalls = 0
    /\ stdout = <<>>
    /\ stderr = <<>>
    /\ thrown = NoError
    /\ result = Pending
    /\ exitCode = NotExited

RunnerEnvKeys == EnvKeys \cup {"your_api_key_here"}

\* what fetch settles with: a rejection, or a response of the server
RunnerStatuses == {200, 401}
RunnerDocuments(ex) ==
    CASE ex = "getInsights" ->
             {d \in InsightsDocuments : Len(d.insights.items) <= 1}
      [] ex = "trackEvent" -> EventDocuments
      [] ex = "searchKnowledgeBase" ->
             {d \in KnowledgeBaseDocuments : Len(d.articles.items) <= 1}
      [] ex = "trackBatchEvents" -> BatchDocuments
RunnerBodies(ex) ==
    {TextBody(""), JsonBody("<json document>", NullDocument)}
        \cup {JsonBody("<json document>", d) : d \in RunnerDocuments(ex)}
Answers(ex) ==
    {[rejects |-> TRUE, cause |-> c, response |-> NoResponse] :
        c \in FetchCauses}
    \cup {[rejects |-> FALSE, cause |-> NoCause, response |-> r] :
            r \in {x \in Responses : /\ x.status \in RunnerStatuses
                                     /\ x.body \in RunnerBodies(ex)}}

\* one call of an example from fetch's settlement to the settlement of the
\* call: the lines it writes and the promise it returns
ExampleRun(ex, answer, a) ==
    LET Failed(lines, error) ==
            LET c == CatchBlock(ex, error, <<>>)
            IN  [stdout |-> lines, stderr |-> c.stderr, result |-> c.result]
        r == answer.response
    IN  IF answer.rejects THEN Failed(<<>>, FetchFailed(answer.cause))
        ELSE IF ~Ok(r)
        THEN Failed(<<>>, IF ReadsErrorBody(ex)
                          THEN BodyTextError(r, r.body.text)
                          ELSE StatusTextError(r))
        ELSE IF ~r.body.valid THEN Failed(<<>>, JsonSyntaxError)
        ELSE LET out == SummaryOf(ex, r.body.data, a)
             IN  IF out.error = NoError
                 THEN [stdout |-> out.lines, stderr |-> <<>>,
                       result |-> Fulfilled(r.body.data)]
                 ELSE Failed(out.lines, out.error)

\* the check each test makes on the data its example returned
TestCheck(i, data) ==
    CASE i = 1 ->
             IF data.insights.t # "array"
             THEN Error(<<"Invalid response structure">>) ELSE NoError
      [] i = 2 ->
             IF ~Truthy(data.success) \/ ~Truthy(data.event_id)
             THEN Error(<<"Event tracking failed">>) ELSE NoError
      [] i = 3 ->
             IF data.articles.t # "array"
             THEN Error(<<"Invalid response structure">>) ELSE NoError
      [] i = 4 ->
             IF ~Truthy(data.success) \/ data.processed = Num(0)
             THEN Error(<<"Batch event tracking failed">>) ELSE NoError

RunTestsInit ==
    /\ ShellAbsent
    /\ ExampleNotInvoked
    /\ SuitesAbsent
    /\ RunAllAbsent
    /\ runnerPc = "loaded"
    /\ runnerEnv \in [key : RunnerEnvKeys, base : EnvBases]
    /\ calls = [i \in Tests |-> "notStarted"]
    /\ sent = <<>>
    /\ results = NoResults
    /\ runnerStdout = <<>>
    /\ runnerStderr = <<>>
    /\ runnerExit = NotExited

\* variant: runTests goes on to the tests whatever the API key is
runTestsWithoutGuard ==
    /\ runnerPc = "loaded"
    /\ runnerPc' = "running"
    /\ UNCHANGED <<exceptRunner, runnerEnv, calls, sent, results,
                   runnerStdout, runnerStderr, runnerExit>>

\* runTests up to its first `await`: the banner and the API key guard
runTests ==
    /\ runnerPc = "loaded"
    /\ LET keySet == runnerEnv.key \notin {Unset, ""}
           banner ==
               << <<"TRIBE API Test Suite">>,
                  <<"Testing API at: ",
                    OrDefault(runnerEnv.base, "https://tribecode.ai/api")>>,
                  <<"API Key: ", IF keySet THEN "Set" ELSE "Not Set">> >>
       IN  IF ~keySet \/ runnerEnv.key = "your_api_key_here"
           THEN /\ runnerStdout' = runnerStdout \o banner \o
                      << <<"To run tests, set your API key:">>,
                         <<"export TRIBE_API_KEY=\"sk_live_your_key_here\"">> >>
                /\ runnerStderr' = Append(runnerStderr,
                      <<"ERROR: TRIBE_API_KEY environment variable not set">>)
                /\ runnerExit' = 1
                /\ runnerPc' = "exited"
           ELSE /\ runnerStdout' = runnerStdout \o banner
                /\ runnerPc' = "running"
                /\ UNCHANGED <<runnerStderr, runnerExit>>
    /\ UNCHANGED <<exceptRunner, runnerEnv, calls, sent, results>>

\* variant: the calls of `test` are made in order but not awaited
PreviousStarted(i) == \A j \in 1..(i - 1) : calls[j] # "notStarted"

\* `await test(...)`: the next statement runs when the promise of the
\* previous test has settled
PreviousSettled(i) == \A j \in 1..(i - 1) : calls[j] = "settled"

\* test(name, fn) up to the `await fetch(...)` of the example fn calls
StartTest(i) ==
    /\ runnerPc = "running"
    /\ calls[i] = "notStarted"
    /\ PreviousSettled(i)
    /\ runnerStdout' = Append(runnerStdout,
                              <<"Testing ", TestNames[i], "... ">>)
    /\ sent' = Append(sent,
                 RequestOf(TestExamples[i], API_KEY(runnerEnv.key),
                           API_BASE(TestExamples[i], runnerEnv.base),
                           DefaultArg))
    /\ calls' = [calls EXCEPT ![i] = "inFlight"]
    /\ UNCHANGED <<exceptRunner, runnerPc, runnerEnv, results, runnerStderr,
                   runnerExit>>

\* fetch settles, the example finishes, and test() records PASS or FAIL
TestSettles(i) ==
    /\ calls[i] = "inFlight"
    /\ \E answer \in Answers(TestExamples[i]) :
        LET run   == ExampleRun(TestExamples[i], answer, DefaultArg)
            error == IF run.result.state = "rejected"
                     THEN run.result.error
                     ELSE TestCheck(i, run.result.value)
        IN  IF error = NoError
            THEN /\ runnerStdout' = runnerStdout \o run.stdout
                                        \o << <<"PASS">> >>
                 /\ runnerStderr' = runnerStderr \o run.stderr
                 /\ results' =
                        [results EXCEPT
                            !.passed = @ + 1,
                            !.tests = Append(@,
                                [name |-> TestNames[i], status |-> "PASS",
                                 error |-> <<>>])]
            ELSE /\ runnerStdout' = runnerStdout \o run.stdout
                                        \o << <<"FAIL">> >>
                 /\ runnerStderr' = runnerStderr \o run.stderr \o
                        << <<"  Error: ">> \o error.message >>
                 /\ results' =
                        [results EXCEPT
                            !.failed = @ + 1,
                            !.tests = Append(@,
                                [name |-> TestNames[i], status |-> "FAIL",
                                 error |-> error.message])]
    /\ calls' = [calls EXCEPT ![i] = "settled"]
    /\ UNCHANGED <<exceptRunner, runnerPc, runnerEnv, sent, runnerExit>>

\* the lines `  - <name>: <error>` of the failed tests
RECURSIVE FailedLines(_)
FailedLines(tests) ==
    IF tests = <<>> THEN <<>>
    ELSE (IF Head(tests).status = "FAIL"
          THEN << <<"  - ", Head(tests).name, ": ">> \o Head(tests).error >>
          ELSE <<>>) \o FailedLines(Tail(tests))

\* variant: the process ends with code 0 whatever failed
ReportExitsZero ==
    /\ runnerPc = "running"
    /\ PreviousSettled(Len(TestExamples) + 1)
    /\ runnerExit' = 0
    /\ runnerPc' = "exited"
    /\ UNCHANGED <<exceptRunner, runnerEnv, calls, sent, results,
                   runnerStdout, runnerStderr>>

\* after the fourth `await test(...)`: the report and process.exit
Report ==
    /\ runnerPc = "running"
    /\ PreviousSettled(Len(TestExamples) + 1)
    /\ LET summary ==
               << <<"Test Results:">>,
                  <<"  Passed: ">> \o NumberToString(results.passed),
                  <<"  Failed: ">> \o NumberToString(results.failed),
                  <<"  Total:  ">>
                      \o NumberToString(results.passed + results.failed) >>
       IN  IF results.failed > 0
           THEN /\ runnerStdout' = runnerStdout \o summary
                      \o << <<"Failed tests:">> >>
                      \o FailedLines(results.tests)
                /\ runnerExit' = 1
           ELSE /\ runnerStdout' = runnerStdout \o summary
                      \o << <<"All tests passed!">> >>
                /\ runnerExit' = 0
    /\ runnerPc' = "exited"
    /\ UNCHANGED <<exceptRunner, runnerEnv, calls, sent, results,
                   runnerStderr>>

RunTestsNext ==
    \/ runTests
    \/ \E i \in Tests : StartTest(i)
    \/ \E i \in Tests : TestSettles(i)
    \/ Report

RunTestsSpec == RunTestsInit /\ [][RunTestsNext]_vars

(***************************************************************************)
(* The shell test suites.  Every suite has the same main: it installs      *)
(* cleanup_test_environment as the EXIT trap, runs setup_test_environment  *)
(* and its tests, and exits; the trap then runs.  Each test of `[[ -d ]]`  *)
(* and each mv, rm and mkdir is a step of its own.                         *)
(***************************************************************************)
Suites ==
    {"test-installation.sh", "test-configuration.sh", "test-cli-commands.sh",
     "test-oauth-flow.sh", "test-service-integration.sh",
     "test-cross-platform.sh", "test-documentation.sh"}

\* the suites whose tests create directories under the real $HOME/.tribe
WritesHome(suite) == suite = "test-documentation.sh"

\* `mkdir -p "$HOME/.tribe"` and its subdirectories
MkdirP(dir) == IF dir = Absent THEN <<"created by tests">> ELSE dir

\* `mv source target`: renames when nothing is at the target, and moves the
\* source into the target when the target is a directory
Mv(source, target) == target \o source

\* one suite is run, as process 1, in a home with or without a .tribe
SuiteInit ==
    /\ ShellAbsent
    /\ ExampleNotInvoked
    /\ RunnerAbsent
    /\ RunAllAbsent
    /\ suiteOf \in {[p \in SuiteProcs |-> IF p = 1 THEN s ELSE "none"] :
                       s \in Suites}
    /\ suitePc = [p \in SuiteProcs |-> IF p = 1 THEN "main" ELSE "absent"]
    /\ suiteExit = [p \in SuiteProcs |-> NotExited]
    /\ homeBefore \in {Absent, <<"original">>}
    /\ home = homeBefore
    /\ backupDir = [p \in SuiteProcs |-> Absent]
    /\ testDir = [p \in SuiteProcs |-> FALSE]

GoTo(p, label)  == suitePc' = [suitePc EXCEPT ![p] = label]

\* main: `trap cleanup_test_environment EXIT`
SuiteMain(p) ==
    /\ suitePc[p] = "main"
    /\ GoTo(p, "setup")
    /\ UNCHANGED <<exceptSuites, suiteOf, suiteExit, home,
                   homeBefore, backupDir, testDir>>

\* setup_test_environment: `if [[ -d "$HOME/.tribe" ]]`
SetupCheck(p) ==
    /\ suitePc[p] = "setup"
    /\ GoTo(p, IF home # Absent THEN "setupMv" ELSE "setupMkdir")
    /\ UNCHANGED <<exceptSuites, suiteOf, suiteExit, home,
                   homeBefore, backupDir, testDir>>

\* setup_test_environment: `mv "$HOME/.tribe" "$BACKUP_DIR"`; a failing mv
\* ends the script (set -e) with mv's status
SetupMv(p) ==
    /\ suitePc[p] = "setupMv"
    /\ IF home = Absent
       THEN /\ suiteExit' = [suiteExit EXCEPT ![p] = 1]
            /\ GoTo(p, "cleanup")
            /\ UNCHANGED <<home, backupDir>>
       ELSE /\ backupDir' = [backupDir EXCEPT ![p] = Mv(home, @)]
            /\ home' = Absent
            /\ GoTo(p, "setupMkdir")
            /\ UNCHANGED suiteExit
    /\ UNCHANGED <<exceptSuites, suiteOf, homeBefore, testDir>>

\* setup_test_environment: `mkdir -p "$TEST_DIR"`
SetupMkdir(p) ==
    /\ suitePc[p] = "setupMkdir"
    /\ testDir' = [testDir EXCEPT ![p] = TRUE]
    /\ GoTo(p, "tests")
    /\ UNCHANGED <<exceptSuites, suiteOf, suiteExit, home,
                   homeBefore, backupDir>>

\* run_*_tests: what the tests do to $HOME/.tribe
RunSuiteTests(p) ==
    /\ suitePc[p] = "tests"
    /\ home' = IF WritesHome(suiteOf[p]) THEN MkdirP(home) ELSE home
    /\ GoTo(p, "tested")
    /\ UNCHANGED <<exceptSuites, suiteOf, suiteExit, homeBefore,
                   backupDir, testDir>>

\* main: `exit 0` when run_*_tests returned 0, `exit 1` otherwise
SuiteExits(p) ==
    /\ suitePc[p] = "tested"
    /\ \E code \in {0, 1} : suiteExit' = [suiteExit EXCEPT ![p] = code]
    /\ GoTo(p, "cleanup")
    /\ UNCHANGED <<exceptSuites, suiteOf, home, homeBefore,
                   backupDir, testDir>>

\* the script ends early: a command fails under `set -e`, or the process
\* receives SIGINT or SIGTERM; the EXIT trap runs all the same
EarlyExit(p) ==
    /\ suitePc[p] \in {"setup", "setupMv", "setupMkdir", "tests", "tested"}
    /\ \E code \in {1, 130} : suiteExit' = [suiteExit EXCEPT ![p] = code]
    /\ GoTo(p, "cleanup")
    /\ UNCHANGED <<exceptSuites, suiteOf, home, homeBefore,
                   backupDir, testDir>>

\* cleanup_test_environment: the test directory is removed if it exists;
\* then `if [[ -d "$BACKUP_DIR" ]]`
CleanupTestDir(p) ==
    /\ suitePc[p] = "cleanup"
    /\ testDir' = [testDir EXCEPT ![p] = FALSE]
    /\ GoTo(p, IF backupDir[p] # Absent THEN "cleanupCheck" ELSE "exited")
    /\ UNCHANGED <<exceptSuites, suiteOf, suiteExit, home,
                   homeBefore, backupDir>>

\* cleanup_test_environment: `if [[ -d "$HOME/.tribe" ]]`
CleanupCheck(p) ==
    /\ suitePc[p] = "cleanupCheck"
    /\ GoTo(p, IF home # Absent THEN "cleanupRm" ELSE "cleanupMv")
    /\ UNCHANGED <<exceptSuites, suiteOf, suiteExit, home,
                   homeBefore, backupDir, testDir>>

\* cleanup_test_environment: `rm -rf "$HOME/.tribe"`
CleanupRm(p) ==
    /\ suitePc[p] = "cleanupRm"
    /\ home' = Absent
    /\ GoTo(p, "cleanupMv")
    /\ UNCHANGED <<exceptSuites, suiteOf, suiteExit, homeBefore,
                   backupDir, testDir>>

\* cleanup_test_environment: `mv "$BACKUP_DIR" "$HOME/.tribe"`
CleanupMv(p) ==
    /\ suitePc[p] = "cleanupMv"
    /\ home' = Mv(backupDir[p], home)
    /\ backupDir' = [backupDir EXCEPT ![p] = Absent]
    /\ GoTo(p, "exited")
    /\ UNCHANGED <<exceptSuites, suiteOf, suiteExit, homeBefore,
                   testDir>>

SuiteNext ==
    \E p \in SuiteProcs :
        \/ SuiteMain(p)
        \/ SetupCheck(p)
        \/ SetupMv(p)
        \/ SetupMkdir(p)
        \/ RunSuiteTests(p)
        \/ SuiteExits(p)
        \/ EarlyExit(p)
        \/ CleanupTestDir(p)
        \/ CleanupCheck(p)
        \/ CleanupRm(p)
        \/ CleanupMv(p)

SuiteSpec == SuiteInit /\ [][SuiteNext]_vars

\* two suites are run at the same time, as processes 1 and 2, one of them
\* possibly the suite whose tests write to $HOME/.tribe
TwoSuitesInit ==
    /\ ShellAbsent
    /\ ExampleNotInvoked
    /\ RunnerAbsent
    /\ RunAllAbsent
    /\ suiteOf \in [SuiteProcs ->
                        {"test-cross-platform.sh", "test-documentation.sh"}]
    /\ suitePc = [p \in SuiteProcs |-> "main"]
    /\ suiteExit = [p \in SuiteProcs |-> NotExited]
    /\ homeBefore \in {Absent, <<"original">>}
    /\ home = homeBefore
    /\ backupDir = [p \in SuiteProcs |-> Absent]
    /\ testDir = [p \in SuiteProcs |-> FALSE]

TwoSuitesSpec == TwoSuitesInit /\ [][SuiteNext]_vars

(***************************************************************************)
(* The master test runner, run-all-tests.sh: parse_arguments,              *)
(* check_prerequisites, then run_selected_tests, which runs the selected   *)
(* suites one after the other as child processes and reports the counts.   *)
(***************************************************************************)
TEST_SUITES ==
    <<"test-installation.sh", "test-configuration.sh", "test-cli-commands.sh",
      "test-oauth-flow.sh", "test-service-integration.sh",
      "test-cross-platform.sh", "test-documentation.sh">>

\* the suite script each selection name stands for
SuiteScript(selection) ==
    CASE selection = "installation"  -> "test-installation.sh"
      [] selection = "configuration" -> "test-configuration.sh"
      [] selection = "commands"      -> "test-cli-commands.sh"
      [] selection = "oauth"         -> "test-oauth-flow.sh"
      [] selection = "services"      -> "test-service-integration.sh"
      [] selection = "platform"      -> "test-cross-platform.sh"
      [] selection = "documentation" -> "test-documentation.sh"

Selections ==
    {"installation", "configuration", "commands", "oauth", "services",
     "platform", "documentation", "all"}

\* the number of test functions run_*_tests of each suite calls
TestCount(script) ==
    CASE script = "test-installation.sh"        -> 6
      [] script = "test-configuration.sh"       -> 8
      [] script = "test-cli-commands.sh"        -> 8
      [] script = "test-oauth-flow.sh"          -> 6
      [] script = "test-service-integration.sh" -> 8
      [] script = "test-cross-platform.sh"      -> 8
      [] script = "test-documentation.sh"       -> 9

\* the test functions a suite executes, by position, when it is started
\* with TEST_QUICK set to `testQuick`: no suite reads the variable
TestsExecuted(script, testQuick) == 1..TestCount(script)

\* parse_arguments: the `while [[ $# -gt 0 ]]` loop over the arguments left,
\* and the default selection
RECURSIVE ParseArguments(_, _)
ParseArguments(args, o) ==
    IF args = <<>>
    THEN IF o.SELECTED_TESTS = <<>>
         THEN [o EXCEPT !.SELECTED_TESTS = <<"all">>]
         ELSE o
    ELSE LET a == Head(args)
         IN  CASE a \in {"-h", "--help"} -> [o EXCEPT !.exit = 0]
               [] a \in {"-v", "--verbose"} ->
                      ParseArguments(Tail(args), [o EXCEPT !.VERBOSE = TRUE])
               [] a \in {"-q", "--quick"} ->
                      ParseArguments(Tail(args),
                          [o EXCEPT !.QUICK = TRUE, !.TEST_QUICK = "1"])
               [] a \in {"-f", "--fail-fast"} ->
                      ParseArguments(Tail(args),
                          [o EXCEPT !.FAIL_FAST = TRUE])
               [] a \in Selections ->
                      ParseArguments(Tail(args),
                          [o EXCEPT !.SELECTED_TESTS = Append(@, a)])
               [] OTHER -> [o EXCEPT !.exit = 1]

\* run_selected_tests: the `case "$selection"` loop that fills tests_to_run
RECURSIVE TestsToRun(_, _)
TestsToRun(selected, tests_to_run) ==
    IF selected = <<>> THEN tests_to_run
    ELSE TestsToRun(Tail(selected),
             IF Head(selected) = "all" THEN TEST_SUITES
             ELSE Append(tests_to_run, SuiteScript(Head(selected))))

\* variant: the duplicates are kept
KeepDuplicates(tests, unique) == tests

\* run_selected_tests: `# Remove duplicates`
RECURSIVE RemoveDuplicates(_, _)
RemoveDuplicates(tests, unique) ==
    IF tests = <<>> THEN unique
    ELSE RemoveDuplicates(Tail(tests),
             IF \E i \in 1..Len(unique) : unique[i] = Head(tests)
             THEN unique
             ELSE Append(unique, Head(tests)))

\* variant: the status of a pipeline is the status of its last command
PipelineStatusOfLast(statuses) == statuses[Len(statuses)]

\* `set -o pipefail`: the status of a pipeline is that of the last command
\* to exit with a non-zero status, or zero when every command exits zero
RECURSIVE PipelineStatus(_)
PipelineStatus(statuses) ==
    IF statuses = <<>> THEN 0
    ELSE IF statuses[Len(statuses)] # 0 THEN statuses[Len(statuses)]
    ELSE PipelineStatus(SubSeq(statuses, 1, Len(statuses) - 1))

\* run_test_suite: the exit_code it returns for a suite that exited `code`;
\* without --verbose the suite is piped into `tee -a`, which exits 0
RunTestSuite(verbose, code) ==
    IF verbose THEN code ELSE PipelineStatus(<<code, 0>>)

\* variant: --fail-fast does not end the loop
BreakNever(failFast, exit_code) == FALSE

\* the run loop is left by `break` after a failed suite under --fail-fast
Break(failFast, exit_code) == failFast /\ exit_code # 0

\* the arguments tried: every option, an unknown option, two suite names
\* and `all`
ArgTokens ==
    {"--help", "--verbose", "--quick", "--fail-fast", "--bogus",
     "installation", "documentation", "all"}

RunAllInit ==
    /\ ShellAbsent
    /\ ExampleNotInvoked
    /\ RunnerAbsent
    /\ SuitesAbsent
    /\ invocation \in [argv : SeqsUpTo(ArgTokens, MaxArgs),
                       testQuick : {Unset, "1"},
                       scriptsPresent : BOOLEAN,
                       bashBefore44 : BOOLEAN]
    /\ runAllPc = "main"
    /\ options = NoOptions
    /\ unique_tests = <<>>
    /\ cursor = 0
    /\ total_tests = 0
    /\ passed_tests = 0
    /\ failed_tests = 0
    /\ ran = <<>>
    /\ report = NoReport
    /\ runAllExit = NotExited

\* main: parse_arguments "$@"
parse_arguments ==
    /\ runAllPc = "main"
    /\ LET o == ParseArguments(invocation.argv,
                    [NoOptions EXCEPT !.TEST_QUICK = invocation.testQuick])
       IN  /\ options' = o
           /\ IF o.exit # NotExited
              THEN /\ runAllExit' = o.exit
                   /\ runAllPc' = "exited"
              ELSE /\ runAllPc' = "parsed"
                   /\ UNCHANGED runAllExit
    /\ UNCHANGED <<exceptRunAll, invocation, unique_tests, cursor,
                   total_tests, passed_tests, failed_tests, ran, report>>

\* main: check_prerequisites
check_prerequisites ==
    /\ runAllPc = "parsed"
    /\ IF invocation.scriptsPresent
       THEN /\ runAllPc' = "checked"
            /\ UNCHANGED runAllExit
       ELSE /\ runAllExit' = 1
            /\ runAllPc' = "exited"
    /\ UNCHANGED <<exceptRunAll, invocation, options, unique_tests, cursor,
                   total_tests, passed_tests, failed_tests, ran, report>>

\* run_selected_tests up to the run loop.  Under `set -u` a bash older than
\* 4.4 treats "${unique_tests[@]}" of the still empty array as an unbound
\* variable and exits, on the first pass of the duplicate removal.
run_selected_tests ==
    /\ runAllPc = "checked"
    /\ IF invocation.bashBefore44
       THEN /\ \E status \in {1, 127} : runAllExit' = status
            /\ runAllPc' = "exited"
            /\ UNCHANGED <<unique_tests, cursor>>
       ELSE /\ unique_tests' =
                   RemoveDuplicates(TestsToRun(options.SELECTED_TESTS, <<>>),
                                    <<>>)
            /\ cursor' = 1
            /\ runAllPc' = "loop"
            /\ UNCHANGED runAllExit
    /\ UNCHANGED <<exceptRunAll, invocation, options, total_tests,
                   passed_tests, failed_tests, ran, report>>

\* the run loop: `((total_tests++))` and the start of the suite script
StartSuite ==
    /\ runAllPc = "loop"
    /\ cursor <= Len(unique_tests)
    /\ total_tests' = total_tests + 1
    /\ ran' = Append(ran, [script |-> unique_tests[cursor], tests |-> {},
                           code |-> NotExited])
    /\ runAllPc' = "suite"
    /\ UNCHANGED <<exceptRunAll, invocation, options, unique_tests, cursor,
                   passed_tests, failed_tests, report, runAllExit>>

\* the suite script exits; run_test_suite returns; the loop counts the
\* suite and goes on, breaks, or ends
SuiteReturns ==
    /\ runAllPc = "suite"
    /\ \E code \in {0, 1} :
        LET exit_code == RunTestSuite(options.VERBOSE, code)
            script    == unique_tests[cursor]
        IN  /\ ran' = [ran EXCEPT ![Len(ran)] =
                          [script |-> script,
                           tests  |-> TestsExecuted(script, options.TEST_QUICK),
                           code   |-> code]]
            /\ IF exit_code = 0
               THEN /\ passed_tests' = passed_tests + 1
                    /\ UNCHANGED failed_tests
               ELSE /\ failed_tests' = failed_tests + 1
                    /\ UNCHANGED passed_tests
            /\ IF Break(options.FAIL_FAST, exit_code)
                  \/ cursor = Len(unique_tests)
               THEN /\ runAllPc' = "report"
                    /\ UNCHANGED cursor
               ELSE /\ runAllPc' = "loop"
                    /\ cursor' = cursor + 1
    /\ UNCHANGED <<exceptRunAll, invocation, options, unique_tests,
                   total_tests, report, runAllExit>>

\* generate_test_report, the return of run_selected_tests, and main's exit
generate_test_report ==
    /\ runAllPc = "report"
    /\ report' = [total |-> total_tests, passed |-> passed_tests,
                  failed |-> failed_tests]
    /\ runAllExit' = IF failed_tests = 0 THEN 0 ELSE 1
    /\ runAllPc' = "exited"
    /\ UNCHANGED <<exceptRunAll, invocation, options, unique_tests, cursor,
                   total_tests, passed_tests, failed_tests, ran>>

RunAllNext ==
    \/ parse_arguments
    \/ check_prerequisites
    \/ run_selected_tests
    \/ StartSuite
    \/ SuiteReturns
    \/ generate_test_report

RunAllSpec == RunAllInit /\ [][RunAllNext]_vars

(***************************************************************************)
(* Vocabulary of the properties.                                           *)
(***************************************************************************)
Settled     == pc \in {"settled", "exited"}
GotResponse == response # NoResponse
Non2xx      == GotResponse /\ response.status \notin 200..299
Is2xx       == GotResponse /\ response.status \in 200..299

DigitStrings == {Digit(d) : d \in 0..9}
DigitValue(c) == CHOOSE d \in 0..9 : Digit(d) = c

\* the three-digit status code written in an `API error: ...` message, or -1
StatusIn(message) ==
    IF /\ Len(message) >= 4
       /\ message[1] = "API error: "
       /\ \A i \in 2..4 : message[i] \in DigitStrings
    THEN 100 * DigitValue(message[2]) + 10 * DigitValue(message[3])
             + DigitValue(message[4])
    ELSE -1

\* the line the catch block of the invoked example logs for `error`
DiagnosticLine(error) == <<CatchPrefix(example)>> \o error.message

\* C1: whenever the response status is outside 200..299, the call fails
\* with an error whose message carries exactly that status code,
\* response.json() is never called, nothing is printed on stdout and no
\* value is returned.
C1_Non2xxFailsWithStatus ==
    Non2xx =>
        /\ jsonCalls = 0
        /\ stdout = <<>>
        /\ result.state # "fulfilled"
        /\ Settled =>
            /\ result.state = "rejected"
            /\ StatusIn(result.error.message) = response.status

C1_Witness ==
    /\ Settled
    /\ example = "trackBatchEvents"
    /\ response.status = 401
    /\ response.body.valid
    /\ result.state = "rejected"

\* C2 (as claimed): for every 2xx response whose body parses as JSON the
\* example returns exactly the parsed body, whatever its members are.
C2_Original ==
    (Settled /\ Is2xx /\ response.body.valid) =>
        result = Fulfilled(response.body.data)

\* C2 (amended): an example returns only after a 2xx response with a JSON
\* body, and the value returned is exactly the parsed body; trackEvent and
\* trackBatchEvents return every 2xx JSON object whatever its members
\* (`success` false or absent included), while ingestEvents and
\* generateInsight reject a 2xx JSON object whose `success` is falsy with
\* their own "... failed" error.
C2_ReturnsParsedBody ==
    LET data == response.body.data
    IN  /\ result.state = "fulfilled" =>
            /\ Is2xx
            /\ response.body.valid
            /\ result.value = data
        /\ (Settled /\ Is2xx /\ response.body.valid /\ data.top = "object") =>
            /\ example \in {"trackEvent", "trackBatchEvents"} =>
                   result = Fulfilled(data)
            /\ (example = "ingestEvents" /\ ~Truthy(data.success)) =>
                   result = Rejected(Error(<<"Event ingestion failed">>))
            /\ (example = "generateInsight" /\ ~Truthy(data.success)) =>
                   result = Rejected(Error(<<"Insight generation failed">>))

C2_Witness ==
    /\ Settled
    /\ example = "trackEvent"
    /\ response.status = 201
    /\ response.body.data.success = Bool(FALSE)
    /\ result = Fulfilled(response.body.data)

IsApiError(error)       == StatusIn(error.message) # -1
IsFetchFailure(error)   == error.cause # NoCause
BadJsonAnswered         == Settled /\ Is2xx /\ ~response.body.valid

\* C4 (as claimed): a 2xx response whose body is not valid JSON makes the
\* call fail with an error of the class MalformedResponseError, without a
\* value and without any line of the summary.
C4_Original ==
    BadJsonAnswered =>
        /\ result.state = "rejected"
        /\ result.error.name = "MalformedResponseError"
        /\ stdout = <<>>

\* C4 (amended): a 2xx response whose body is not valid JSON makes the call
\* fail with the SyntaxError that response.json() raised (the examples
\* define no MalformedResponseError class), which differs by its name from
\* the Error of a non-2xx response and from the TypeError of a failed
\* fetch; no value is returned and no line of the summary is printed.
C4_BadJsonIsSyntaxError ==
    /\ BadJsonAnswered =>
        /\ result = Rejected(JsonSyntaxError)
        /\ ~IsApiError(result.error)
        /\ ~IsFetchFailure(result.error)
        /\ stdout = <<>>
    /\ (result.state = "rejected" /\ result.error.name = "SyntaxError") =>
        (Is2xx /\ ~response.body.valid)

C4_Witness ==
    /\ BadJsonAnswered
    /\ example = "searchKnowledgeBase"
    /\ response.body.text = "<html>Bad Gateway</html>"
    /\ result.error.name = "SyntaxError"

C5_TypeErrorAfterResponse ==
    /\ result.state = "rejected"
    /\ GotResponse
    /\ result.error.name = "TypeError"

C7_State ==
    /\ thrown # NoError =>
        /\ result = Rejected(thrown)
        /\ stderr = <<DiagnosticLine(thrown)>>
    /\ (Settled /\ (~GotResponse \/ Non2xx \/ ~response.body.valid)) =>
        thrown # NoError
    /\ (Settled /\ Is2xx /\ response.body.valid
          /\ SummaryOf(example, response.body.data, arg).error # NoError) =>
        thrown = SummaryOf(example, response.body.data, arg).error
    /\ thrown = NoError => stderr = <<>>

\* C7: every failure inside an example (fetch rejection, non-2xx response,
\* JSON parse failure, failure while the summary is printed) rejects the
\* returned promise with the very error that was raised, after exactly one
\* diagnostic line; the promise is never fulfilled after a failure.
C7_FailuresPropagate ==
    /\ []C7_State
    /\ [][thrown # NoError => (result' = result /\ thrown' = thrown)]_vars

C7_Witness ==
    /\ Settled
    /\ example = "getInsights"
    /\ Is2xx
    /\ thrown.name = "TypeError"
    /\ Len(stdout) = 1
    /\ result = Rejected(thrown)

\* C8: each invocation issues exactly one HTTP request, whatever the
\* outcome: none before the call, one from the call on, and no further one
\* after a failed fetch, a non-2xx response or a parse failure.
C8_ExactlyOneRequest ==
    /\ pc = "loaded" => requests = <<>>
    /\ pc # "loaded" => Len(requests) = 1

C8_Witness ==
    /\ Settled
    /\ thrown # NoError
    /\ ~GotResponse
    /\ Len(requests) = 1

\* C9: every request sent, GET or POST, carries `Authorization: Bearer
\* <token>`, the token being the configured API key or the placeholder
\* when none is configured, and `Content-Type: application/json`.
C9_EveryRequestAuthorized ==
    \A i \in 1..Len(requests) :
        /\ requests[i].headers.Authorization =
               <<"Bearer ",
                 IF envKey \in {Unset, ""} THEN "your_api_key_here"
                                           ELSE envKey>>
        /\ requests[i].headers.ContentType = "application/json"
        /\ requests[i].method \in {"GET", "POST"}

C9_Witness ==
    /\ Len(requests) = 1
    /\ requests[1].method = "POST"
    /\ envKey = Unset
    /\ requests[1].headers.Authorization = <<"Bearer ", "your_api_key_here">>

C11_EventsExampleRetrieves ==
    example = "trackEvent" =>
        /\ \A i \in 1..Len(requests) :
              /\ requests[i].method = "GET"
              /\ requests[i].path = "/analytics/events"
              /\ requests[i].query # <<>>
              /\ requests[i].body = NoBody
        /\ result.state = "fulfilled" =>
              \E i \in 1..Len(stdout) : stdout[i][1] = "Total events: "

\* what the settled promise lets a caller read
ExposesStatus ==
    /\ result.state = "rejected"
    /\ StatusIn(result.error.message) = response.status
ExposesParsedBody ==
    /\ result.state = "fulfilled"
    /\ result.value = response.body.data
ExposesBodyText ==
    /\ result.state = "rejected"
    /\ Len(result.error.message) = 6
    /\ result.error.message[5] = " - "
    /\ result.error.message[6] = response.body.text

C12_StatusOnly ==
    /\ Settled
    /\ example = "trackEvent"
    /\ response.status = 500
    /\ ExposesStatus
    /\ ~ExposesBodyText


\* a 2xx response whose body is a JSON object has been handled
ObjectAnswered ==
    /\ Settled
    /\ Is2xx
    /\ response.body.valid
    /\ response.body.data.top = "object"

C14_WarningCase ==
    /\ example = "trackBatchEvents"
    /\ ObjectAnswered
    /\ response.body.data.success = Bool(FALSE)
    /\ response.body.data.failed = Num(0)
    /\ stdout[5] = <<"Some events failed to track">>
    /\ result.state = "fulfilled"

\* `articles` is an array of article objects whose `tags` is an array or
\* missing
ArticlesWellFormed(data) ==
    /\ data.top = "object"
    /\ data.articles.t = "array"
    /\ \A i \in 1..Len(data.articles.items) :
          /\ data.articles.items[i].t = "object"
          /\ data.articles.items[i].tags.t \in {"array", "undefined", "null"}

\* the line of stdout on which line k (1..4) of the block of article i is
ArticleLine(i, k) == 3 + 4 * (i - 1) + k

\* C15: searchKnowledgeBase(query) sends `search=<query>` and `limit=5` as
\* the query parameters of a GET to /knowledge-base/articles, and for every
\* 2xx response {total, articles} prints `Total results: <total>` and
\* `Showing: <number of articles> articles`, then one block per article in
\* response order.
C15_SearchSummary ==
    example = "searchKnowledgeBase" =>
        /\ \A i \in 1..Len(requests) :
              /\ requests[i].method = "GET"
              /\ requests[i].path = "/knowledge-base/articles"
              /\ requests[i].query =
                     << [k |-> "search", v |-> <<arg.query>>],
                        [k |-> "limit", v |-> <<"5">>] >>
              /\ requests[i].body = <<>>
        /\ (ObjectAnswered /\ ArticlesWellFormed(response.body.data)) =>
              LET data == response.body.data
                  n    == Len(data.articles.items)
              IN  /\ Len(stdout) >= 3 + 4 * n
                  /\ stdout[2] = <<"Total results: ">> \o Render(data.total)
                  /\ stdout[3] = <<"Showing: ">> \o NumberToString(n)
                                     \o <<" articles">>
                  /\ \A i \in 1..n :
                        /\ stdout[ArticleLine(i, 1)] =
                               NumberToString(i) \o <<". ">>
                                   \o Render(data.articles.items[i].title)
                        /\ stdout[ArticleLine(i, 2)][1] = "   Topic: "
                        /\ stdout[ArticleLine(i, 3)][1] = "   Tags: "
                        /\ data.articles.items[i].tags.t = "array" /\
                           Len(data.articles.items[i].tags.items) > 1 =>
                               stdout[ArticleLine(i, 3)][2] =
                                   data.articles.items[i].tags.items[1]
                        /\ stdout[ArticleLine(i, 4)][1] = "   Updated: "
                  /\ Len(stdout) = 3 + 4 * n
                        + (IF pc = "exited" THEN 1 ELSE 0)
                  /\ result = Fulfilled(data)

\* as in end-to-end scenario 2, with two articles of different tags
C15_Witness ==
    /\ example = "searchKnowledgeBase"
    /\ arg.query = "api"
    /\ ObjectAnswered
    /\ ArticlesWellFormed(response.body.data)
    /\ Len(response.body.data.articles.items) = 2
    /\ response.body.data.articles.items[1].tags.t = "undefined"
    /\ response.body.data.articles.items[2].tags.t = "array"
    /\ stdout[2] = <<"Total results: ", "1", "3">>
    /\ stdout[3] = <<"Showing: ", "2", " articles">>
    /\ stdout[ArticleLine(2, 3)] = <<"   Tags: ", "security", ", ", "secrets">>

InFlight == {i \in Tests : calls[i] = "inFlight"}

\* C13: at any moment at most one HTTP request is in flight: every call of
\* an example sends one request, and runTests starts a call only after
\* every earlier call has resolved or rejected.
C13_OneRequestInFlight ==
    /\ [](/\ Cardinality(InFlight) <= 1
          /\ Len(sent) = Cardinality({i \in Tests : calls[i] # "notStarted"}))
    /\ [][\A i \in Tests :
            (calls[i] = "notStarted" /\ calls'[i] # "notStarted") =>
                \A j \in Tests \ {i} : calls[j] # "inFlight"]_vars

\* the third call is in flight after one call passed and one failed
C13_Witness ==
    /\ InFlight = {3}
    /\ Len(sent) = 3
    /\ results.passed = 1
    /\ results.failed = 1


\* C17 (as claimed): for every suite and every outcome, after the suite's
\* EXIT cleanup $HOME/.tribe exists, with its original content, if and
\* only if it existed before the suite started, and the suite's test and
\* backup directories no longer exist.
C17_OriginalStateRestored ==
    \A p \in SuiteProcs :
        suitePc[p] = "exited" =>
            /\ home = homeBefore
            /\ ~testDir[p]
            /\ backupDir[p] = Absent

\* what does hold of C17: the suite's own directories are gone, an
\* original $HOME/.tribe is back unchanged, and only test-documentation.sh
\* leaves a $HOME/.tribe where there was none
C17_OriginalKept ==
    \A p \in SuiteProcs :
        suitePc[p] = "exited" =>
            /\ ~testDir[p]
            /\ backupDir[p] = Absent
            /\ homeBefore # Absent => home = homeBefore
            /\ ~WritesHome(suiteOf[p]) => home = homeBefore

\* an original $HOME/.tribe restored after a failing run of the suite
\* whose tests write to it
C17_Restored ==
    /\ suiteOf[1] = "test-documentation.sh"
    /\ suitePc[1] = "exited"
    /\ suiteExit[1] = 1
    /\ homeBefore = <<"original">>
    /\ home = <<"original">>


\* the suites that have exited with status 0 / with another status
PassedSuites == {i \in 1..Len(ran) : ran[i].code = 0}
FailedSuites == {i \in 1..Len(ran) : ran[i].code \notin {0, NotExited}}
ReportMade   == report # NoReport

\* C18 (as claimed): run-all-tests.sh exits 0 if and only if every suite
\* it ran exited 0, and 1 otherwise; at every point of the run loop
\* total_tests = passed_tests + failed_tests; a suite is counted as passed
\* exactly when its own exit code was 0.
C18_Original ==
    /\ runAllPc = "exited" =>
          /\ runAllExit \in {0, 1}
          /\ runAllExit = 0 <=> FailedSuites = {}
    /\ runAllPc \in {"loop", "suite", "report"} =>
          total_tests = passed_tests + failed_tests
    /\ passed_tests = Cardinality(PassedSuites)
    /\ failed_tests = Cardinality(FailedSuites)

\* C18: a run that reaches the report exits 0 if and only if every suite
\* it ran exited 0, and 1 otherwise; a run that ends before the run loop
\* (--help, an unknown option, missing scripts, a bash older than 4.4) has
\* run no suite and exits 0 only for --help.  Between two suites and at
\* the report total_tests = passed_tests + failed_tests, and while a suite
\* runs total_tests is one more.  With and without --verbose a suite is
\* counted as passed exactly when its own exit code was 0.
C18_CountsAndExit ==
    /\ (runAllPc = "exited" /\ ReportMade) =>
          /\ runAllExit \in {0, 1}
          /\ runAllExit = 0 <=> FailedSuites = {}
          /\ report = [total |-> Len(ran),
                       passed |-> Cardinality(PassedSuites),
                       failed |-> Cardinality(FailedSuites)]
    /\ (runAllPc = "exited" /\ ~ReportMade) =>
          /\ ran = <<>>
          /\ runAllExit # NotExited
          /\ runAllExit = 0 <=>
                \E i \in 1..Len(invocation.argv) :
                    /\ invocation.argv[i] = "--help"
                    /\ \A j \in 1..(i - 1) : invocation.argv[j] # "--bogus"
    /\ runAllPc \in {"loop", "report"} =>
          total_tests = passed_tests + failed_tests
    /\ runAllPc = "suite" => total_tests = passed_tests + failed_tests + 1
    /\ passed_tests = Cardinality(PassedSuites)
    /\ failed_tests = Cardinality(FailedSuites)

\* without --verbose: one suite failed and one passed, and the run exits 1
C18_Witness ==
    /\ runAllPc = "exited"
    /\ ~options.VERBOSE
    /\ ReportMade
    /\ Cardinality(PassedSuites) = 1
    /\ Cardinality(FailedSuites) = 1
    /\ runAllExit = 1

\* the same with --verbose
C18_VerboseWitness ==
    /\ runAllPc = "exited"
    /\ options.VERBOSE
    /\ ReportMade
    /\ Cardinality(PassedSuites) = 6
    /\ Cardinality(FailedSuites) = 1
    /\ runAllExit = 1

\* a suite is running: total_tests is ahead of the two other counters
C18_WhileSuiteRuns ==
    /\ runAllPc = "suite"
    /\ total_tests = 1
    /\ passed_tests + failed_tests = 0

\* the scripts of the suites started, and the scripts selected
ScriptsRan == {ran[i].script : i \in 1..Len(ran)}
ScriptsSelected ==
    IF \E i \in 1..Len(options.SELECTED_TESTS) :
           options.SELECTED_TESTS[i] = "all"
    THEN {TEST_SUITES[i] : i \in 1..Len(TEST_SUITES)}
    ELSE {SuiteScript(options.SELECTED_TESTS[i]) :
             i \in 1..Len(options.SELECTED_TESTS)}

\* C19: with --fail-fast no suite is started after a suite has failed, and
\* the run that stopped still produces the report and exits 1; without
\* --fail-fast a run that enters the run loop runs every selected suite,
\* whatever failed before.
C19_FailFast ==
    /\ options.FAIL_FAST =>
          /\ \A i \in 1..(Len(ran) - 1) : ran[i].code = 0
          /\ (runAllPc = "exited" /\ FailedSuites # {}) =>
                /\ ReportMade
                /\ report.failed = 1
                /\ runAllExit = 1
    /\ (~options.FAIL_FAST /\ runAllPc \in {"report", "exited"}
           /\ unique_tests # <<>>) =>
          /\ ScriptsRan = ScriptsSelected
          /\ Len(ran) = Cardinality(ScriptsSelected)

\* --fail-fast: the second of seven suites failed, nothing ran after it
C19_Witness ==
    /\ options.FAIL_FAST
    /\ runAllPc = "exited"
    /\ Len(unique_tests) = 7
    /\ Len(ran) = 2
    /\ ran[1].code = 0
    /\ ran[2].code = 1
    /\ ReportMade
    /\ runAllExit = 1

\* no --fail-fast: the first suite failed and all seven ran
C19_WithoutFailFast ==
    /\ ~options.FAIL_FAST
    /\ runAllPc = "exited"
    /\ Len(ran) = 7
    /\ ran[1].code = 1
    /\ runAllExit = 1

\* the tests executed by the run, and the tests the same selection
\* executes when TEST_QUICK is not set
TestsOfRun ==
    UNION {{<<ran[i].script, t>> : t \in ran[i].tests} : i \in 1..Len(ran)}
TestsWithoutQuick ==
    UNION {{<<script, t>> : t \in TestsExecuted(script, Unset)} :
              script \in ScriptsSelected}

\* C20 (as claimed): with --quick or TEST_QUICK=1 the set of tests a
\* complete run executes is a strict subset of the set executed without
\* the flag.
C20_QuickRunsFewerTests ==
    (runAllPc = "exited" /\ ReportMade /\ ~options.FAIL_FAST
        /\ options.TEST_QUICK = "1") =>
        /\ TestsOfRun \subseteq TestsWithoutQuick
        /\ TestsOfRun # TestsWithoutQuick

\* what does hold of C20: --quick sets QUICK and exports TEST_QUICK=1, and
\* a complete run executes the same tests with and without it
C20_QuickChangesNothing ==
    /\ runAllPc # "main" =>
          \A i \in 1..Len(invocation.argv) :
              (invocation.argv[i] = "--quick"
                  /\ \A j \in 1..(i - 1) :
                        invocation.argv[j] \notin {"--help", "--bogus"}) =>
                  (options.QUICK /\ options.TEST_QUICK = "1")
    /\ (runAllPc = "exited" /\ ReportMade /\ ~options.FAIL_FAST) =>
          TestsOfRun = TestsWithoutQuick


\* the suite names on the command line, in the order given
NamedInArgv == SelectSeq(invocation.argv, LAMBDA a : a \in Selections)

\* the position at which the suite of `script` is first named
FirstNamed(script) ==
    CHOOSE i \in 1..Len(NamedInArgv) :
        /\ SuiteScript(NamedInArgv[i]) = script
        /\ \A j \in 1..(i - 1) : SuiteScript(NamedInArgv[j]) # script

\* the run went through its whole list: it reported, and --fail-fast did
\* not cut it short
CompleteRun ==
    /\ runAllPc = "exited"
    /\ ReportMade
    /\ ~(options.FAIL_FAST /\ FailedSuites # {})

C21_NamedTwice ==
    /\ CompleteRun
    /\ invocation.argv = <<"installation", "installation">>
    /\ Len(ran) = 1

\* `all` after a suite name: the seven suites, each once
C21_AllAfterName ==
    /\ CompleteRun
    /\ invocation.argv = <<"documentation", "all">>
    /\ Len(ran) = 7
    /\ ran[1].script = "test-installation.sh"


\* the API key the runner was started with passes its guard
KeyUsable == runnerEnv.key \notin {Unset, "", "your_api_key_here"}

\* the entries of `results.tests` with the given status
Entries(status) ==
    {i \in 1..Len(results.tests) : results.tests[i].status = status}

\* C23 (as claimed): runTests always runs all four tests in the fixed
\* order, records one PASS or FAIL entry per test so that passed + failed
\* = 4 at the end, and exits 1 if failed > 0 and 0 otherwise.
C23_Original ==
    runnerPc = "exited" =>
        /\ Len(sent) = 4
        /\ [i \in 1..Len(results.tests) |-> results.tests[i].name] =
               <<"Get Insights", "Track Event", "Search Knowledge Base",
                 "Track Batch Events">>
        /\ results.passed + results.failed = 4
        /\ runnerExit = (IF results.failed > 0 THEN 1 ELSE 0)

\* C23: started with an API key that passes the guard, runTests runs all
\* four tests in the fixed order whatever failed before, records one PASS
\* or FAIL entry per test so that passed + failed = 4 at the end, and
\* exits 1 if failed > 0 and 0 otherwise.  Without such a key it exits 1
\* with no test run and no entry recorded.
C23_AllFourTestsRun ==
    /\ \A i \in 1..Len(results.tests) :
          /\ results.tests[i].name =
                 <<"Get Insights", "Track Event", "Search Knowledge Base",
                   "Track Batch Events">>[i]
          /\ results.tests[i].status \in {"PASS", "FAIL"}
    /\ results.passed = Cardinality(Entries("PASS"))
    /\ results.failed = Cardinality(Entries("FAIL"))
    /\ (runnerPc = "exited" /\ KeyUsable) =>
          /\ Len(sent) = 4
          /\ Len(results.tests) = 4
          /\ results.passed + results.failed = 4
          /\ runnerExit = (IF results.failed > 0 THEN 1 ELSE 0)
    /\ (runnerPc = "exited" /\ ~KeyUsable) =>
          /\ results.tests = <<>>
          /\ results.passed + results.failed = 0
          /\ runnerExit = 1

\* the first test failed, the three later ones ran and passed
C23_Witness ==
    /\ runnerPc = "exited"
    /\ [i \in 1..Len(results.tests) |-> results.tests[i].status] =
           <<"FAIL", "PASS", "PASS", "PASS">>
    /\ results.passed = 3
    /\ results.failed = 1
    /\ runnerExit = 1

\* all four passed
C23_AllPassed ==
    /\ runnerPc = "exited"
    /\ results.passed = 4
    /\ runnerExit = 0

\* C24: when TRIBE_API_KEY is unset, empty or the placeholder
\* `your_api_key_here`, runTests exits with code 1 before any example is
\* called: no HTTP request is issued, and no request ever carries a
\* missing or placeholder key.
C24_NoRequestWithoutKey ==
    /\ ~KeyUsable =>
          /\ sent = <<>>
          /\ \A i \in Tests : calls[i] = "notStarted"
          /\ runnerPc \in {"loaded", "exited"}
          /\ runnerPc = "exited" => runnerExit = 1
    /\ \A i \in 1..Len(sent) :
          /\ sent[i].headers.Authorization = <<"Bearer ", runnerEnv.key>>
          /\ KeyUsable

\* started with the placeholder key: ended with code 1, nothing sent
C24_Witness ==
    /\ runnerEnv.key = "your_api_key_here"
    /\ runnerPc = "exited"
    /\ runnerExit = 1
    /\ sent = <<>>
    /\ runnerStderr =
           << <<"ERROR: TRIBE_API_KEY environment variable not set">> >>


\* ingestEvents has printed its summary of a successful ingest
IngestSucceeded ==
    /\ example = "ingestEvents"
    /\ ObjectAnswered
    /\ Truthy(response.body.data.success)

\* C29 (as claimed): on a successful ingest the printed `Events processed`
\* value equals the response's `events_processed` whenever the server
\* supplies that field (including 0), and the number of events sent only
\* when the field is absent.
C29_ReportsServerCount ==
    IngestSucceeded =>
        /\ Len(stdout) >= 2
        /\ stdout[2] =
               <<"Events processed: ">> \o
                   (IF response.body.data.events_processed.t # "undefined"
                    THEN Render(response.body.data.events_processed)
                    ELSE NumberToString(Len(arg.events)))

\* what does hold of C29: the server's count is printed when it is not 0,
\* and the number of events sent when it is 0 or absent
C29_ZeroCountsAsAbsent ==
    IngestSucceeded =>
        /\ Len(stdout) >= 2
        /\ stdout[2] =
               <<"Events processed: ">> \o
                   (IF response.body.data.events_processed
                           \notin {Undefined, Num(0)}
                    THEN Render(response.body.data.events_processed)
                    ELSE NumberToString(Len(arg.events)))

\* three events sent, the server processed none, `3` is printed
C29_ZeroReportedAsSent ==
    /\ IngestSucceeded
    /\ Len(arg.events) = 3
    /\ response.body.data.events_processed = Num(0)
    /\ stdout[2] = <<"Events processed: ", "3">>


\* C27 (as claimed): when two suites run concurrently as separate
\* processes, under every interleaving of their steps the user's original
\* $HOME/.tribe is never deleted or replaced: after both have exited it
\* has its original content.
C27_OriginalSurvivesTwoSuites ==
    (homeBefore # Absent /\ \A p \in SuiteProcs : suitePc[p] = "exited") =>
        home = homeBefore

\* what does hold of C27: the original survives when neither suite is the
\* one whose tests write to $HOME/.tribe
C27_SafeWithoutWriter ==
    (/\ homeBefore # Absent
     /\ \A p \in SuiteProcs : suitePc[p] = "exited"
     /\ \A p \in SuiteProcs : ~WritesHome(suiteOf[p])) =>
        home = homeBefore

\* both suites have exited with status 0 and the original is gone: what is
\* at $HOME/.tribe is the directory the tests of one suite created
C27_OriginalLost ==
    /\ homeBefore = <<"original">>
    /\ \A p \in SuiteProcs : suitePc[p] = "exited" /\ suiteExit[p] = 0
    /\ home = <<"created by tests">>
    /\ \A p \in SuiteProcs : backupDir[p] = Absent

\* ---------------------------------------------------------------------
\* One suite script, test by test; the mock OAuth server
\* ---------------------------------------------------------------------

\* a text is the list of its fragments; `grep -q`, Python's `in` and
\* `startswith` look for a run of fragments
Contains(text, part) ==
    \E i \in 0..(Len(text) - Len(part)) :
        \A j \in 1..Len(part) : text[i + j] = part[j]

StartsWith(text, prefix) ==
    /\ Len(text) >= Len(prefix)
    /\ SubSeq(text, 1, Len(prefix)) = prefix

NotFound == [status |-> 404, body |-> <<>>]

\* MockOAuthHandler.do_GET
do_GET(request) ==
    IF StartsWith(request.path, <<"/oauth/authorize">>)
    THEN [status |-> 200,
          body |-> <<"<title>", "Mock OAuth Authorization", "</title>",
                     "test-auth-code-12345">>]
    ELSE IF StartsWith(request.path, <<"/oauth/callback">>)
    THEN [status |-> 200,
          body |-> <<"<title>", "Authorization Complete", "</title>",
                     "test-auth-code-12345">>]
    ELSE NotFound

\* MockOAuthHandler.do_POST; a JSON body is the list of its keys, each
\* followed by the fragments of its value
do_POST(request) ==
    IF request.path = <<"/oauth/token">>
    THEN [status |-> 200,
          body |-> <<"access_token", "test-access-token", "-67890",
                     "refresh_token", "test-refresh-token-abcdef",
                     "token_type", "Bearer">>]
    ELSE IF request.path = <<"/user">>
    THEN IF Contains(request.Authorization,
                     <<"Bearer ", "test-access-token">>)
         THEN [status |-> 200,
               body |-> <<"id", "test-user-123",
                          "email", "test@example.com",
                          "name", "Test User", "login", "testuser">>]
         ELSE [status |-> 401, body |-> <<>>]
    ELSE NotFound

\* BaseHTTPRequestHandler: the method of the request picks the handler
MockOAuthHandler(request) ==
    IF request.method = "GET" THEN do_GET(request) ELSE do_POST(request)

\* `curl -s [-X POST] [-H "Authorization: ..."] url`: without -X and
\* without -d the request is a GET; the exit status is nonzero only when
\* nothing listens on the port
Curl(srv, method, path, authorization) ==
    LET request == [method |-> method, path |-> path,
                    Authorization |-> authorization]
    IN  IF srv = "listening"
        THEN [exit |-> 0, request |-> request,
              response |-> MockOAuthHandler(request)]
        ELSE [exit |-> 7, request |-> request,
              response |-> [status |-> 0, body |-> <<>>]]

\* `jq -r '.access_token // "test-access-token-67890"'` on a JSON body
AccessTokenOf(body) ==
    IF \E i \in 1..(Len(body) - 2) : body[i] = "access_token"
    THEN LET i == CHOOSE k \in 1..(Len(body) - 2) : body[k] = "access_token"
         IN  <<body[i + 1], body[i + 2]>>
    ELSE <<"test-access-token", "-67890">>

\* test_oauth_flow_simulation: the requests it makes, what was answered,
\* the lines it logs and its return status
test_oauth_flow_simulation(srv, jq) ==
    LET authorize == Curl(srv, "GET",
                          <<"/oauth/authorize", "?response_type=code">>,
                          <<>>)
        token == Curl(srv, "POST", <<"/oauth/token">>, <<>>)
        TOKEN_RESPONSE ==
            IF token.exit = 0 THEN token.response.body ELSE <<"{}">>
        hasToken == Contains(TOKEN_RESPONSE, <<"access_token">>)
        ACCESS_TOKEN == AccessTokenOf(TOKEN_RESPONSE)
        user == Curl(srv, "GET", <<"/user">>,
                     <<"Bearer ">> \o ACCESS_TOKEN)
        USER_INFO == IF user.exit = 0 THEN user.response.body ELSE <<"{}">>
        made == <<authorize, token>>
                    \o (IF hasToken /\ jq THEN <<user>> ELSE <<>>)
    IN  [exchanges |->
             SelectSeq(made, LAMBDA c : c.exit = 0),
         log |->
             <<IF Contains(authorize.response.body,
                           <<"Mock OAuth Authorization">>)
               THEN "OAuth authorization endpoint accessible"
               ELSE "OAuth authorization endpoint not accessible">>
             \o <<IF hasToken
                  THEN "OAuth token exchange simulation works"
                  ELSE "OAuth token exchange simulation failed">>
             \o (IF hasToken /\ jq
                 THEN <<IF Contains(USER_INFO, <<"test@example.com">>)
                        THEN "User info retrieval simulation works"
                        ELSE "User info retrieval simulation failed">>
                 ELSE <<>>),
         status |-> 0]

\* run_oauth_tests: test_oauth_flow_simulation is the third test
FlowSimulationTest == 3

\* variant: cleanup leaves the server alone
LeaveServer(pid, srv) == srv

\* cleanup_test_environment: `kill "$MOCK_SERVER_PID"` and `wait` when the
\* PID is set and `kill -0` finds the process
StopServer(pid, srv) ==
    IF pid # "" /\ srv \in {"starting", "listening"}
    THEN "terminated"
    ELSE srv

\* variant: the suite reports success whatever failed
ResultAlwaysZero(failed) == 0

\* run_*_tests: `if [[ $failed_tests -eq 0 ]]; then return 0 else return 1`,
\* and main exits with that status
SuiteResult(failed) == IF failed = 0 THEN 0 ELSE 1

ScriptInit ==
    /\ ExampleNotInvoked
    /\ RunnerAbsent
    /\ SuitesAbsent
    /\ RunAllAbsent
    /\ suiteScript \in Suites
    /\ tools \in [cli : BOOLEAN, python3 : BOOLEAN, jq : BOOLEAN]
    /\ scriptPc = "setup"
    /\ executed = <<>>
    /\ totalTests = 0
    /\ failedTests = 0
    /\ MOCK_SERVER_PID = ""
    /\ server = "none"
    /\ exchanges = <<>>
    /\ scriptLog = <<>>
    /\ scriptExit = NotExited
    /\ config_file = [readable |-> FALSE, content |-> <<>>]
    /\ validation = [pc |-> "absent", status |-> NotExited]

\* main: `trap cleanup_test_environment EXIT`, then setup_test_environment;
\* test-cli-commands.sh exits 1 when the CLI binary is not at TRIBE_CLI_PATH
setup_test_environment ==
    /\ scriptPc = "setup"
    /\ IF suiteScript = "test-cli-commands.sh" /\ ~tools.cli
       THEN /\ scriptExit' = 1
            /\ scriptPc' = "cleanup"
       ELSE /\ scriptExit' = scriptExit
            /\ scriptPc' = IF suiteScript = "test-oauth-flow.sh"
                           THEN "start_server" ELSE "tests"
    /\ UNCHANGED <<exceptScript, suiteScript, tools, executed, totalTests,
                   failedTests, MOCK_SERVER_PID, server, exchanges,
                   scriptLog>>

\* start_mock_oauth_server, called first by run_oauth_tests: the process
\* started with `&` listens within the two seconds, is still starting, or
\* has ended already; the curl check tells whether it listens
start_mock_oauth_server ==
    /\ scriptPc = "start_server"
    /\ IF tools.python3
       THEN \E started \in {"listening", "starting", "dead"} :
               /\ server' = started
               /\ MOCK_SERVER_PID' = "$!"
               /\ scriptLog' =
                      IF Curl(started, "GET", <<"/oauth/authorize">>,
                              <<>>).exit = 0
                      THEN scriptLog
                      ELSE Append(scriptLog,
                                  "Mock OAuth server not available")
       ELSE /\ server' = server
            /\ MOCK_SERVER_PID' = MOCK_SERVER_PID
            /\ scriptLog' = Append(scriptLog,
                                   "Mock OAuth server not available")
    /\ scriptPc' = "tests"
    /\ UNCHANGED <<exceptScript, suiteScript, tools, executed, totalTests,
                   failedTests, exchanges, scriptExit>>

\* mock-oauth-server.py: a server that was slow to start reaches
\* serve_forever
serve_forever ==
    /\ server = "starting"
    /\ server' = "listening"
    /\ UNCHANGED <<exceptScript, suiteScript, tools, scriptPc, executed,
                   totalTests, failedTests, MOCK_SERVER_PID, exchanges,
                   scriptLog, scriptExit>>

\* run_*_tests: `((total_tests++)); if test_x; then ... else
\* ((failed_tests++)); fi` for the next test function
RunTest ==
    /\ scriptPc = "tests"
    /\ Len(executed) < TestCount(suiteScript)
    /\ LET i == Len(executed) + 1
           flow == test_oauth_flow_simulation(server, tools.jq)
       IN  /\ executed' = Append(executed, i)
           /\ totalTests' = totalTests + 1
           /\ IF suiteScript = "test-oauth-flow.sh" /\ i = FlowSimulationTest
              THEN /\ exchanges' = exchanges \o flow.exchanges
                   /\ scriptLog' = scriptLog \o flow.log
                   /\ failedTests' = IF flow.status = 0
                                     THEN failedTests ELSE failedTests + 1
              ELSE /\ \E passed \in BOOLEAN :
                          failedTests' = IF passed THEN failedTests
                                         ELSE failedTests + 1
                   /\ UNCHANGED <<exchanges, scriptLog>>
    /\ UNCHANGED <<exceptScript, suiteScript, tools, scriptPc,
                   MOCK_SERVER_PID, server, scriptExit>>

\* run_*_tests returns after the last test and main exits with its result
ExitWithResult ==
    /\ scriptPc = "tests"
    /\ Len(executed) = TestCount(suiteScript)
    /\ scriptExit' = SuiteResult(failedTests)
    /\ scriptPc' = "cleanup"
    /\ UNCHANGED <<exceptScript, suiteScript, tools, executed, totalTests,
                   failedTests, MOCK_SERVER_PID, server, exchanges,
                   scriptLog>>

\* the EXIT trap: cleanup_test_environment
cleanup_test_environment ==
    /\ scriptPc = "cleanup"
    /\ server' = StopServer(MOCK_SERVER_PID, server)
    /\ scriptPc' = "done"
    /\ UNCHANGED <<exceptScript, suiteScript, tools, executed, totalTests,
                   failedTests, MOCK_SERVER_PID, exchanges, scriptLog,
                   scriptExit>>

ScriptNext ==
    \/ setup_test_environment
    \/ start_mock_oauth_server
    \/ serve_forever
    \/ RunTest
    \/ ExitWithResult
    \/ cleanup_test_environment

ScriptSpec == ScriptInit /\ [][ScriptNext]_vars

\* the positions 1..n in order
UpTo(n) == [i \in 1..n |-> i]

\* run_*_tests has been through all its tests and the script has ended
TestsDone == scriptPc = "done" /\ executed # <<>>

C22_AllPassed ==
    /\ TestsDone
    /\ failedTests = 0
    /\ scriptExit = 0

\* the flow simulation ran against the listening mock server
FlowRanAgainstServer ==
    /\ suiteScript = "test-oauth-flow.sh"
    /\ Len(executed) >= FlowSimulationTest
    /\ exchanges # <<>>

\* the request for the user's info made with the access token
UserInfoRequest(exchange) ==
    /\ StartsWith(exchange.request.path, <<"/user">>)
    /\ exchange.request.Authorization
           = <<"Bearer ", "test-access-token", "-67890">>

\* C25: against the running mock server the flow simulation reaches the
\* authorize page, obtains an access token, and its user-info request made
\* with that token is answered with the test user's info; the mock answers
\* a user-info request with 200 only when the Authorization header
\* contains `Bearer test-access-token`, and with 401 otherwise.
C25_FlowGetsUserInfo ==
    FlowRanAgainstServer =>
        /\ Contains(scriptLog, <<"OAuth authorization endpoint accessible">>)
        /\ Contains(scriptLog, <<"OAuth token exchange simulation works">>)
        /\ \A i \in 1..Len(exchanges) :
              UserInfoRequest(exchanges[i]) =>
                  /\ exchanges[i].response.status = 200
                  /\ Contains(exchanges[i].response.body,
                              <<"test@example.com">>)

\* C25, what the code does: the user-info request is a GET, which the mock
\* answers with 404 and an empty body, and the test still passes
C25_UserInfoNotFound ==
    FlowRanAgainstServer =>
        /\ Contains(scriptLog, <<"OAuth authorization endpoint accessible">>)
        /\ Contains(scriptLog, <<"OAuth token exchange simulation works">>)
        /\ \A i \in 1..Len(exchanges) :
              UserInfoRequest(exchanges[i]) =>
                  /\ exchanges[i].request.method = "GET"
                  /\ exchanges[i].response = NotFound
        /\ ~Contains(scriptLog, <<"User info retrieval simulation works">>)
        /\ (tools.jq <=>
               Contains(scriptLog,
                        <<"User info retrieval simulation failed">>))

\* the flow simulation asked for the user's info and was refused
C25_Refused ==
    /\ FlowRanAgainstServer
    /\ \E i \in 1..Len(exchanges) : UserInfoRequest(exchanges[i])
    /\ Contains(scriptLog, <<"User info retrieval simulation failed">>)

\* C26: when test-oauth-flow.sh has exited, the process of the mock OAuth
\* server is not running: it was never started, it ended by itself, or the
\* EXIT trap terminated it.
C26_ServerStopped ==
    scriptPc = "done" => server \notin {"starting", "listening"}

\* the start-up check failed on a server that was slow to start, a test
\* failed, and the trap terminated the server
C26_Witness ==
    /\ scriptPc = "done"
    /\ server = "terminated"
    /\ Contains(scriptLog, <<"Mock OAuth server not available">>)
    /\ failedTests > 0

\* all tests passed against the listening server, which the trap terminated
C26_AllPassed ==
    /\ scriptPc = "done"
    /\ server = "terminated"
    /\ exchanges # <<>>
    /\ scriptExit = 0

\* ---------------------------------------------------------------------
\* validate_config_structure (test-configuration.sh)
\* ---------------------------------------------------------------------

\* the longest file content, in tokens
MaxTokens == 4

\* the member `"api_base": "http://localhost:3456"`
ApiBase == "\"api_base\": \"http://localhost:3456\""

\* a file content is the list of its tokens
ConfigTokens == {"{", "}", "[", "]", "1", ApiBase, "invalid json"}

ConfigContents == UNION {[1..n -> ConfigTokens] : n \in 0..MaxTokens}

\* one JSON value: a number, an object of at most one member, or an array
\* of at most one value
RECURSIVE IsJsonValue(_)
IsJsonValue(content) ==
    \/ content = <<"1">>
    \/ content = <<"{", "}">>
    \/ content = <<"{", ApiBase, "}">>
    \/ /\ Len(content) >= 2
       /\ content[1] = "["
       /\ content[Len(content)] = "]"
       /\ \/ Len(content) = 2
          \/ IsJsonValue(SubSeq(content, 2, Len(content) - 1))

\* `jq . file` succeeds on any sequence of JSON values, the empty one too
RECURSIVE JqAccepts(_)
JqAccepts(content) ==
    \/ content = <<>>
    \/ \E k \in 1..Len(content) :
          /\ IsJsonValue(SubSeq(content, 1, k))
          /\ JqAccepts(SubSeq(content, k + 1, Len(content)))

\* `python3 -m json.tool file` succeeds on exactly one JSON value
JsonToolAccepts(content) == IsJsonValue(content)

\* `grep -q "{" file` and `grep -q "}" file`
GrepAccepts(content) ==
    /\ \E i \in 1..Len(content) : content[i] = "{"
    /\ \E i \in 1..Len(content) : content[i] = "}"

\* variant: every readable file is accepted
AcceptReadable(file, found) == IF file.readable THEN 0 ELSE 1

\* validate_config_structure: its return status for the file and for the
\* commands `command -v` finds
validate_config_structure(file, found) ==
    IF ~file.readable THEN 1
    ELSE IF found.jq
         THEN (IF JqAccepts(file.content) THEN 0 ELSE 1)
    ELSE IF found.python3
         THEN (IF JsonToolAccepts(file.content) THEN 0 ELSE 1)
    ELSE (IF GrepAccepts(file.content) THEN 0 ELSE 1)

ValidateInit ==
    /\ ExampleNotInvoked
    /\ RunnerAbsent
    /\ SuitesAbsent
    /\ RunAllAbsent
    /\ suiteScript = "test-configuration.sh"
    /\ tools \in [cli : {TRUE}, python3 : BOOLEAN, jq : BOOLEAN]
    /\ scriptPc = "absent"
    /\ executed = <<>>
    /\ totalTests = 0
    /\ failedTests = 0
    /\ MOCK_SERVER_PID = ""
    /\ server = "none"
    /\ exchanges = <<>>
    /\ scriptLog = <<>>
    /\ scriptExit = NotExited
    /\ config_file \in [readable : BOOLEAN, content : ConfigContents]
    /\ validation = [pc |-> "called", status |-> NotExited]

\* validate_config_structure returns
ValidateReturns ==
    /\ validation.pc = "called"
    /\ validation' = [pc |-> "returned",
                      status |-> validate_config_structure(config_file,
                                                           tools)]
    /\ UNCHANGED <<exceptValidate, config_file>>

ValidateNext == ValidateReturns

ValidateSpec == ValidateInit /\ [][ValidateNext]_vars

\* the file was accepted
Accepted == validation.status = 0

\* the call has returned
Validated == validation.pc = "returned"

\* C28 as stated: a file is accepted exactly when it is readable and its
\* content is syntactically valid JSON, whichever validator is available.
C28_Original ==
    Validated =>
        (Accepted <=> config_file.readable /\ IsJsonValue(config_file.content))

\* C28: an unreadable file is rejected and a readable JSON object is
\* accepted by every validator, with only `api_base` in it too. With jq a
\* readable file is accepted exactly when it holds zero or more JSON
\* values; with python3 and no jq, exactly when it holds one JSON value;
\* with neither, exactly when it contains an opening and a closing brace.
C28_AcceptedByValidator ==
    Validated =>
        /\ ~config_file.readable => ~Accepted
        /\ /\ config_file.readable
           /\ config_file.content \in {<<"{", "}">>, <<"{", ApiBase, "}">>}
           => Accepted
        /\ config_file.content = <<"{", "invalid json">> => ~Accepted
        /\ config_file.readable /\ tools.jq =>
               (Accepted <=>
                   \/ config_file.content = <<>>
                   \/ \E cuts \in SUBSET (1..(Len(config_file.content) - 1)) :
                         \A i \in 1..Len(config_file.content) :
                            i - 1 \in cuts \cup {0} =>
                               \E j \in i..Len(config_file.content) :
                                  /\ j \in cuts \cup {Len(config_file.content)}
                                  /\ \A k \in i..(j - 1) : k \notin cuts
                                  /\ IsJsonValue(SubSeq(config_file.content,
                                                        i, j)))
        /\ config_file.readable /\ ~tools.jq /\ tools.python3 =>
               (Accepted <=> IsJsonValue(config_file.content))
        /\ config_file.readable /\ ~tools.jq /\ ~tools.python3 =>
               (Accepted <=>
                   {"{", "}"} \subseteq
                       {config_file.content[i] :
                            i \in 1..Len(config_file.content)})

\* the object with only `api_base` is accepted by the grep fallback
C28_Witness ==
    /\ Accepted
    /\ config_file.content = <<"{", ApiBase, "}">>
    /\ ~tools.jq
    /\ ~tools.python3

\* the grep fallback accepts a file that is not JSON
C28_FallbackAcceptsGarbage ==
    /\ Accepted
    /\ config_file.content = <<"{", "invalid json", "}">>

\* the grep fallback rejects a JSON array
C28_FallbackRejectsArray ==
    /\ validation.status = 1
    /\ config_file.readable
    /\ config_file.content = <<"[", "1", "]">>

\* jq accepts an empty file
C28_JqAcceptsEmpty ==
    /\ Accepted
    /\ config_file.content = <<>>

====
